---- MODULE Spec2Model ----
(***************************************************************************)
(* Model of the AltText.ai MCP adapter: the API client (the TypeScript     *)
(* client of src/src/alttext-api.ts and the Ruby client of                 *)
(* src/unnamed/part_003), the tool handlers of src/unnamed/part_004 and    *)
(* the error formatters.                                                   *)
(***************************************************************************)
EXTENDS Integers, Sequences, FiniteSets, TLC

VARIABLES
    impl,         \* which client implementation serves the calls: "ts" or "ruby"
    httpStarted,  \* Ruby: @http.started? of the one shared Net::HTTP object
    pc,           \* per call: position of the handler / client
    tool,         \* per call: the tool invoked
    file,         \* per call: the local file named by the arguments (or NoFile)
    attempts,     \* per call: network attempts made so far
    retried,      \* per call: the local `retried` flag of the Ruby begin/rescue/retry
    torn,         \* per call: the connection the in-flight attempt uses was finished
    seen,         \* per call: what each attempt made so far ended with, in order
    ret,          \* per call: what the API client method returned or raised
    failed,       \* per call: an exception was raised inside the handler's try block
    content,      \* per call: the tool response handed to the protocol layer
    invoked,      \* per call: how many API client methods the handler has called
    onDisk,       \* per call: the file its path leads to now; once read, the file read
    env,          \* the process environment: ALTTEXT_API_KEY and ALTTEXT_API_BASE_URL
    proc,         \* how far the server process has come: "start", "loaded", "serving", "exit1"
    api,          \* the API client the process constructed (NoApi before that)
    registered,   \* the tools registered with the MCP server
    given,        \* the client method last called directly, with its options
    sent,         \* the request that call handed to the transport
    reply,        \* the pagination headers of the response to it
    page,         \* the pagination metadata the client returned for it
    shown,        \* the record last given to a formatter, and the text it produced
    tag           \* the client-version tag handed to the client's constructor (Absent: none)

\* the process start-up
startVars == <<env, proc, api, registered>>

\* the tool calls in progress
callVars == <<httpStarted, pc, tool, file, attempts, retried, torn, seen, ret,
              failed, content, invoked, onDisk>>

\* the client methods and formatters, called one at a time
clientVars == <<given, sent, reply, page, shown, tag>>

vars == <<impl, httpStarted, pc, tool, file, attempts, retried, torn,
          seen, ret, failed, content, invoked, onDisk, startVars, clientVars>>

(***************************************************************************)
(* Bounds of the model.                                                    *)
(***************************************************************************)
\* no call starts another attempt once it has made this many
AttemptCap == 4

\* the tool calls that may be in progress at the same time
Calls == {"c1", "c2"}

\* marks an optional JSON field that is not present (undefined / nil)
Absent == "<absent>"

(***************************************************************************)
(* Strings.                                                                *)
(***************************************************************************)
RECURSIVE Join(_, _)
\* Array.prototype.join / Array#join
Join(seq, sep) ==
    IF Len(seq) = 0 THEN ""
    ELSE IF Len(seq) = 1 THEN seq[1]
    ELSE seq[1] \o sep \o Join(Tail(seq), sep)

RECURSIVE Flat(_)
\* Object.values(errors).flat() / errors.values.flatten on an insertion-ordered
\* map kept as a sequence of <<field, messages>> pairs
Flat(pairs) ==
    IF Len(pairs) = 0 THEN <<>>
    ELSE pairs[1][2] \o Flat(Tail(pairs))

\* a text that is read character by character is kept as the sequence of its
\* characters; Str gives it back as one string
Str(cs) == Join(cs, "")

\* an optional text: not given (undefined / nil), or given with these characters
NoText == [given |-> FALSE, chars |-> <<>>]
Text(cs) == [given |-> TRUE, chars |-> cs]

(***************************************************************************)
(* JSON bodies, responses and errors.                                      *)
(***************************************************************************)
\* the "errors" member of a body: not present, present but no object, or an
\* insertion-ordered map field -> list of messages
NoErrors == [kind |-> "absent", pairs |-> <<>>]
\* a parsed or unparsable response body
\*   kind "object":  a JSON object with the optional members error, error_code, errors
\*   kind "null":    the JSON literal null
\*   kind "array":   a JSON array
\*   kind "nonjson": text that JSON parsing rejects (HTML, the empty body, ...)
\*   kind "broken":  a body whose stream fails before its end, the status line
\*                   and headers having arrived: the connection is lost or
\*                   the timeout signal aborts the read
Body(kind, error, code, errors) ==
    [kind |-> kind, error |-> error, error_code |-> code, errors |-> errors]
EmptyObject == Body("object", Absent, Absent, NoErrors)
NullBody == Body("null", Absent, Absent, NoErrors)
Response(status, body) == [kind |-> "response", status |-> status, body |-> body, name |-> Absent]
TransportError(name) == [kind |-> "error", status |-> 0, body |-> EmptyObject, name |-> name]

\* an exception object
AltTextApiError(status, errorCode, errors, message) ==
    [class |-> "AltTextApiError", status |-> status, errorCode |-> errorCode,
     errors |-> errors, message |-> message]
OtherError(class, message) ==
    [class |-> class, status |-> -1, errorCode |-> Absent, errors |-> <<>>,
     message |-> message]

\* what a client method hands back to its caller
NoResult == [kind |-> "none", data |-> EmptyObject, exc |-> OtherError("none", "")]
Returned(data) == [kind |-> "return", data |-> data, exc |-> OtherError("none", "")]
Raised(exc) == [kind |-> "raise", data |-> EmptyObject, exc |-> exc]

\* Response.ok / Net::HTTPSuccess
IsSuccess(status) == status >= 200 /\ status <= 299

\* TypeScript connectionError(err)
connectionError(name) ==
    AltTextApiError(0, "connection_error", <<>>,
                    "Could not connect to AltText.ai API: " \o name)

\* Ruby AltTextApi#connection_error(exception)
connection_error(name) ==
    AltTextApiError(0, "connection_error", <<>>,
                    "Could not connect to AltText.ai API: " \o name)

\* handleResponse letting the rejection of response.json() through
handleResponse_no_catch(response) ==
    IF response.body.kind \in {"nonjson", "broken"}
    THEN Raised(OtherError("SyntaxError", "Unexpected end of JSON input"))
    ELSE IF ~IsSuccess(response.status)
    THEN Raised(AltTextApiError(response.status, Absent, <<>>,
                                "HTTP " \o ToString(response.status)))
    ELSE Returned(response.body)

\* TypeScript handleResponse(response)
handleResponse(response) ==
    LET \* try { body = await response.json() } catch { body = {} }: the
        \* catch takes a rejected read of the body as it takes a syntax error
        body == IF response.body.kind \in {"nonjson", "broken"} THEN EmptyObject
                ELSE response.body
    IN  IF ~IsSuccess(response.status)
        THEN IF body.kind = "null"
             THEN \* body["error_code"] on null
                  Raised(OtherError("TypeError",
                         "Cannot read properties of null (reading 'error_code')"))
             ELSE LET errorCode == body.error_code
                      rawErrors == body.errors
                      \* only an object's entries whose value is an array of strings
                      errors == IF rawErrors.kind = "map" THEN rawErrors.pairs ELSE <<>>
                      errorValues == Flat(errors)
                      message == IF body.error # Absent THEN body.error
                                 ELSE IF Len(errorValues) > 0 THEN Join(errorValues, ", ")
                                 ELSE "HTTP " \o ToString(response.status)
                  IN  Raised(AltTextApiError(response.status, errorCode, errors, message))
        ELSE Returned(body)

\* Ruby AltTextApi#handle_response(response)
handle_response(response) ==
    LET \* JSON.parse(response.body || '{}') rescue JSON::ParserError -> {}
        body == IF response.body.kind = "nonjson" THEN EmptyObject ELSE response.body
    IN  IF ~IsSuccess(response.status)
        THEN IF body.kind = "null"
             THEN Raised(OtherError("NoMethodError", "undefined method '[]' for nil"))
             ELSE IF body.kind = "array"
             THEN Raised(OtherError("TypeError",
                         "no implicit conversion of String into Integer"))
             ELSE LET error_code == body.error_code
                      \* errors = {} unless errors.is_a?(Hash)
                      errors == IF body.errors.kind = "map" THEN body.errors.pairs ELSE <<>>
                      joined == Join(Flat(errors), ", ")
                      message == IF body.error # Absent THEN body.error
                                 ELSE IF joined # "" THEN joined
                                 ELSE "HTTP " \o ToString(response.status)
                  IN  Raised(AltTextApiError(response.status, error_code, errors, message))
        ELSE Returned(body)

(***************************************************************************)
(* Transport failures and the clients' handling of them.                   *)
(***************************************************************************)
\* rescue Errno::EPIPE, IOError, Errno::ECONNRESET
ClosedErrors == {"EPIPE", "IOError", "ECONNRESET"}
\* rescue Errno::ECONNREFUSED, Net::OpenTimeout, Net::ReadTimeout,
\*        Net::WriteTimeout, SocketError
ConnectErrors == {"ECONNREFUSED", "OpenTimeout", "ReadTimeout", "WriteTimeout",
                  "SocketError"}

\* request's rescue without the `raise connection_error(e) if retried` line
request_rescue_unbounded(name, wasRetried) ==
    IF name \in ClosedErrors THEN "retry"
    ELSE IF name \in ConnectErrors THEN "connection_error"
    ELSE "propagate"

\* request's rescue with the retry written into the second rescue clause too
request_rescue_retry_all(name, wasRetried) ==
    IF name \in ClosedErrors \cup ConnectErrors
    THEN IF wasRetried THEN "connection_error" ELSE "retry"
    ELSE "propagate"

\* Ruby AltTextApi#request: what the begin/rescue/retry block does with an
\* exception of class `name` when the local flag is `wasRetried`
request_rescue(name, wasRetried) ==
    IF name \in ClosedErrors
    THEN IF wasRetried THEN "connection_error" ELSE "retry"
    ELSE IF name \in ConnectErrors THEN "connection_error"
    ELSE "propagate"

\* Ruby AltTextApi#bulk_create: its own copy of the begin/rescue/retry block
bulk_create_rescue(name, wasRetried) ==
    IF name \in ClosedErrors
    THEN IF wasRetried THEN "connection_error" ELSE "retry"
    ELSE IF name \in ConnectErrors THEN "connection_error"
    ELSE "propagate"

\* TypeScript AltTextApi.request: try { await fetch } catch (err) { throw connectionError(err) }
request_catch(name, wasRetried) == "connection_error"

\* TypeScript AltTextApi.bulkCreate: the same catch around its own fetch
bulkCreate_catch(name, wasRetried) == "connection_error"

(***************************************************************************)
(* Tool handlers: local files, response blocks.                            *)
(***************************************************************************)
MAX_FILE_SIZE == 10 * 1024 * 1024

\* in the order of the Set literal, which is the order of [...allowedExtensions]
ALLOWED_IMAGE_EXTENSIONS ==
    <<".jpg", ".jpeg", ".png", ".gif", ".webp", ".bmp", ".tiff", ".tif", ".svg", ".avif">>

\* no allow-list given (bulk_create)
NoExtensions == <<>>

\* String.prototype.toLowerCase on the extensions of the model's files
toLowerCase(ext) ==
    CASE ext = ".PNG" -> ".png"
      [] ext = ".JPG" -> ".jpg"
      [] OTHER -> ext

\* a path of the local file system: whether realpath resolves it, the
\* extension and base name of the resolved path, whether stat says it is a
\* regular file, and its size in bytes
File(path, resolves, ext, base, isFile, size) ==
    [path |-> path, resolves |-> resolves, ext |-> ext, base |-> base,
     isFile |-> isFile, size |-> size]
NoFile == File("", FALSE, "", "", FALSE, 0)

\* resolveAndValidateFile without the stats.size comparison
resolveAndValidateFile_no_size(f, allowedExtensions) ==
    IF ~f.resolves
    THEN Raised(OtherError("Error", "File not found: " \o f.path))
    ELSE IF allowedExtensions # <<>>
            /\ toLowerCase(f.ext) \notin {allowedExtensions[i] : i \in DOMAIN allowedExtensions}
    THEN Raised(OtherError("Error", "Unsupported file type: " \o toLowerCase(f.ext)))
    ELSE IF ~f.isFile
    THEN Raised(OtherError("Error", "Not a regular file: " \o f.path))
    ELSE Returned(EmptyObject)

\* resolveAndValidateFile refusing a file of exactly MAX_FILE_SIZE bytes
resolveAndValidateFile_exclusive(f, allowedExtensions) ==
    IF ~f.resolves
    THEN Raised(OtherError("Error", "File not found: " \o f.path))
    ELSE IF allowedExtensions # <<>>
            /\ toLowerCase(f.ext) \notin {allowedExtensions[i] : i \in DOMAIN allowedExtensions}
    THEN Raised(OtherError("Error", "Unsupported file type: " \o toLowerCase(f.ext)))
    ELSE IF ~f.isFile
    THEN Raised(OtherError("Error", "Not a regular file: " \o f.path))
    ELSE IF f.size >= MAX_FILE_SIZE
    THEN Raised(OtherError("Error",
             "File too large (" \o ToString(f.size) \o " bytes, max "
             \o ToString(MAX_FILE_SIZE) \o ")"))
    ELSE Returned(EmptyObject)

\* resolveAndValidateFile(filePath, allowedExtensions): the Error it throws,
\* or a return of the resolved path
resolveAndValidateFile(f, allowedExtensions) ==
    LET Range(seq) == {seq[i] : i \in DOMAIN seq}
    IN
    IF ~f.resolves
    THEN Raised(OtherError("Error", "File not found: " \o f.path))
    ELSE IF allowedExtensions # NoExtensions
            /\ toLowerCase(f.ext) \notin Range(allowedExtensions)
    THEN Raised(OtherError("Error",
             "Unsupported file type: "
             \o (IF toLowerCase(f.ext) # "" THEN toLowerCase(f.ext) ELSE "(none)")
             \o ". Supported: " \o Join(allowedExtensions, ", ")))
    ELSE IF ~f.isFile
    THEN Raised(OtherError("Error", "Not a regular file: " \o f.path))
    ELSE IF f.size > MAX_FILE_SIZE
    THEN Raised(OtherError("Error",
             "File too large (" \o ToString(f.size) \o " bytes, max "
             \o ToString(MAX_FILE_SIZE) \o ")"))
    ELSE Returned(EmptyObject)

\* a tool response: content is the list of text blocks
NoContent == [content |-> <<>>, isError |-> FALSE]

\* textContent(text)
textContent(text) == [content |-> <<text>>, isError |-> FALSE]

\* errorContent returning its text without the isError flag
errorContent_unflagged(err) ==
    [content |-> <<"Error: " \o err.message>>, isError |-> FALSE]

\* errorContent(err)
errorContent(err) ==
    IF err.class = "AltTextApiError"
    THEN LET parts == <<"Error (" \o ToString(err.status) \o "): " \o err.message>>
             \* if (err.errorCode): null and the empty string are falsy
             all == IF err.errorCode # Absent /\ err.errorCode # ""
                    THEN Append(parts, "Code: " \o err.errorCode)
                    ELSE parts
         IN  [content |-> <<Join(all, "\n")>>, isError |-> TRUE]
    ELSE [content |-> <<"Error: " \o err.message>>, isError |-> TRUE]

\* Ruby Formatters.error_response(error)
error_response(error) ==
    IF error.class = "AltTextApiError"
    THEN LET parts == <<"Error (" \o ToString(error.status) \o "): " \o error.message>>
             \* if error.error_code: only nil is falsy
             all == IF error.errorCode # Absent
                    THEN Append(parts, "Code: " \o error.errorCode)
                    ELSE parts
         IN  [content |-> <<Join(all, "\n")>>, isError |-> TRUE]
    ELSE [content |-> <<"Error: " \o error.message>>, isError |-> TRUE]

\* the tools of the model: two that only call the client, one of them
\* ignoring what the client returns, and the two that take a local file
Tools == {"get_account", "delete_image", "generate_alt_text_from_file", "bulk_create"}
FileTools == {"generate_alt_text_from_file", "bulk_create"}

\* the success branch of a handler on the client's result `data`: the text it
\* builds, or the TypeError of reading a property of null
handlerSuccess(t, base, data) ==
    IF t = "delete_image"
    THEN Returned(textContent("Deleted image img_1"))
    ELSE IF data.kind = "null"
    THEN Raised(OtherError("TypeError", "Cannot read properties of null"))
    ELSE IF t = "get_account"
    THEN Returned(textContent(
             "Account: undefined\nCredits: NaN remaining (undefined used of undefined)"
             \o "\nDefault language: undefined\nWhitelabel: undefined\nNo quotes: undefined"))
    ELSE IF t = "generate_alt_text_from_file"
    THEN Returned(textContent("Generated alt text for " \o base
                              \o ":\n\nAsset ID: undefined\nAlt text: (none)"))
    ELSE Returned(textContent("Bulk import processed 0 rows"))

(***************************************************************************)
(* The upstream and the network: an attempt ends with a response or with   *)
(* a transport exception.                                                  *)
(***************************************************************************)
Outcomes ==
    LET ErrorsMap(pairs) == [kind |-> "map", pairs |-> pairs]
    IN
    LET NonJsonBody == Body("nonjson", Absent, Absent, NoErrors)
    IN
    LET UpstreamErrors == {"EPIPE", "ECONNREFUSED", "ReadTimeout", "SSLError"}
    IN
    { Response(200, EmptyObject),
      Response(200, NullBody),
      \* a reply without a body, as to delete-image
      Response(204, NonJsonBody),
      \* the body of a reply is cut off while it is read
      Response(200, Body("broken", Absent, Absent, NoErrors)),
      Response(401, Body("object", "Invalid API key", "unauthorized", NoErrors)),
      \* an error body whose error_code is the empty string
      Response(403, Body("object", "Forbidden", "", NoErrors)),
      Response(422, Body("object", Absent, Absent,
                         ErrorsMap(<< <<"url", <<"is invalid", "must be public">>>> >>))),
      Response(502, NonJsonBody),
      Response(500, NullBody) }
    \cup { TransportError(n) : n \in UpstreamErrors }

IsClosed(o) == o.kind = "error" /\ o.name \in ClosedErrors

\* what the attempt in flight can end with: anything the upstream and the
\* network do, or, when another user of the shared connection has closed
\* the socket under it, the IOError of reading a closed stream.
\* @http.request(req) reads the whole body before it returns, so a body cut
\* off reaches the Ruby client as one of the transport exceptions and never
\* as a response
InFlightOutcomes(c) ==
    IF impl = "ruby"
    THEN IF torn[c] THEN {TransportError("IOError")}
         ELSE {o \in Outcomes : o.body.kind # "broken"}
    ELSE Outcomes

(***************************************************************************)
(* The API client object and the start of the server process.              *)
(***************************************************************************)
\* the default of the constructors, character by character up to its last
\* path segment
DEFAULT_BASE_URL == <<"https://alttext.ai", "/", "api", "/", "v1">>

RECURSIVE stripTrailingSlashes(_)
\* String.prototype.replace(/\/+$/, "")
stripTrailingSlashes(cs) ==
    IF cs # <<>> /\ cs[Len(cs)] = "/"
    THEN stripTrailingSlashes(SubSeq(cs, 1, Len(cs) - 1))
    ELSE cs

\* no client constructed
NoApi == [apiKey |-> Absent, baseUrl |-> Absent]

\* TypeScript: new AltTextApi(apiKey, baseUrl); a third argument is not a
\* parameter of the constructor
AltTextApi(apiKey, baseUrl) ==
    [apiKey |-> apiKey,
     baseUrl |-> Str(stripTrailingSlashes(IF baseUrl.given THEN baseUrl.chars
                                          ELSE DEFAULT_BASE_URL))]

\* Ruby: AltTextApi.new(api_key:, base_url:)
initialize(api_key, base_url) ==
    LET \* String#chomp('/')
        chomp(cs) ==
            IF cs # <<>> /\ cs[Len(cs)] = "/" THEN SubSeq(cs, 1, Len(cs) - 1) ELSE cs
    IN
    [apiKey |-> api_key,
     baseUrl |-> Str(chomp(IF base_url.given THEN base_url.chars
                           ELSE DEFAULT_BASE_URL))]

\* the start-up check with the key test left out
keyMissing_never(apiKey) == FALSE

\* if (!apiKey): undefined and the empty string
keyMissing(apiKey) == apiKey = Absent \/ apiKey = ""

(***************************************************************************)
(* The client's methods: the request each one builds.                      *)
(***************************************************************************)
\* an argument or JSON value: its type and its text (a string's characters,
\* a number's digits, true / false, the JSON text of an array or object)
Undefined == [t |-> "undefined", v |-> ""]
Val(t, v) == [t |-> t, v |-> v]

\* Ruby: every value but nil (a missing key, JSON null) and false is truthy
rb_truthy(x) == x.t \notin {"undefined", "null"} /\ ~(x.t = "boolean" /\ x.v = "false")

\* JavaScript: undefined, null, false, 0 and the empty string are falsy
js_truthy(x) ==
    /\ x.t \notin {"undefined", "null"}
    /\ ~(x.t = "boolean" /\ x.v = "false")
    /\ ~(x.t = "string" /\ x.v = "")
    /\ ~(x.t = "number" /\ x.v = "0")

\* a JSON object under construction: its keys with their values, in
\* insertion order
HasKey(obj, key) == \E i \in DOMAIN obj : obj[i][1] = key
Get(obj, key) == obj[CHOOSE i \in DOMAIN obj : obj[i][1] = key][2]
Put(obj, key, value) ==
    IF HasKey(obj, key)
    THEN [i \in DOMAIN obj |-> IF obj[i][1] = key THEN <<key, value>> ELSE obj[i]]
    ELSE Append(obj, <<key, value>>)

RECURSIVE assignDefined_truthy(_, _)
\* assignDefined skipping every falsy value instead of only undefined
assignDefined_truthy(target, entries) ==
    IF entries = <<>> THEN target
    ELSE assignDefined_truthy(IF js_truthy(entries[1][2])
                              THEN Put(target, entries[1][1], entries[1][2])
                              ELSE target,
                              Tail(entries))

RECURSIVE assignDefined(_, _)
\* assignDefined(target, entries): copy the entries, skipping undefined values
assignDefined(target, entries) ==
    IF entries = <<>> THEN target
    ELSE assignDefined(IF entries[1][2].t # "undefined"
                       THEN Put(target, entries[1][1], entries[1][2])
                       ELSE target,
                       Tail(entries))

RECURSIVE assign_if(_, _)
\* Ruby: a run of `hash[:key] = value if value` statements
assign_if(target, entries) ==
    IF entries = <<>> THEN target
    ELSE assign_if(IF rb_truthy(entries[1][2])
                   THEN Put(target, entries[1][1], entries[1][2])
                   ELSE target,
                   Tail(entries))

RECURSIVE assign_unless_nil(_, _)
\* Ruby: a run of `hash[:key] = value unless value.nil?` statements
assign_unless_nil(target, entries) ==
    IF entries = <<>> THEN target
    ELSE assign_unless_nil(IF entries[1][2].t # "undefined"
                           THEN Put(target, entries[1][1], entries[1][2])
                           ELSE target,
                           Tail(entries))

RECURSIVE buildQuery(_)
\* buildQuery(params): the defined parameters, each as String(value)
buildQuery(params) ==
    IF params = <<>> THEN <<>>
    ELSE (IF params[1][2].t # "undefined"
          THEN << <<params[1][1], params[1][2].v>> >>
          ELSE <<>>) \o buildQuery(Tail(params))

RECURSIVE encode_www_form(_)
\* Ruby: URI.encode_www_form(query.compact): the pairs with their values as text
encode_www_form(query) ==
    IF query = <<>> THEN <<>>
    ELSE << <<query[1][1], query[1][2].v>> >> \o encode_www_form(Tail(query))

\* a JSON body { <envelope>: { inner }, outer... }, or no body
NoBody == [present |-> FALSE, envelope |-> "", inner |-> <<>>, outer |-> <<>>]
JsonBody(envelope, inner, outer) ==
    [present |-> TRUE, envelope |-> envelope, inner |-> inner, outer |-> outer]

\* the characters percent-encoding replaces, with their escapes
Escapes ==
    [ch \in {"/", " ", "?", "#", "%", "!", "~"} |->
        CASE ch = "/" -> "%2F"
          [] ch = " " -> "%20"
          [] ch = "?" -> "%3F"
          [] ch = "#" -> "%23"
          [] ch = "%" -> "%25"
          [] ch = "!" -> "%21"
          [] ch = "~" -> "%7E"]

\* the asset id put into the path as it is
encodeURIComponent_none(cs) == cs

\* encodeURIComponent(text): character by character (a run of letters,
\* digits, "-", "_" and "." is one element and is left as it is)
encodeURIComponent(cs) ==
    LET \* the marks encodeURIComponent leaves as they are
        UriMarks == {"!", "~", "*", "'", "(", ")"}
    IN
    [i \in DOMAIN cs |->
        IF cs[i] \in DOMAIN Escapes /\ cs[i] \notin UriMarks THEN Escapes[cs[i]] ELSE cs[i]]

\* Ruby: URI.encode_uri_component(text): only letters, digits and *-._ stay
encode_uri_component(cs) ==
    [i \in DOMAIN cs |-> IF cs[i] \in DOMAIN Escapes THEN Escapes[cs[i]] ELSE cs[i]]

\* a request as handed to fetch / Net::HTTP: path is the endpoint path piece
\* by piece, kind is "none", "json" or "multipart"
Request(method, base, path, query, headers, kind, body, form) ==
    [method |-> method, base |-> base, path |-> path, query |-> query,
     headers |-> headers, kind |-> kind, body |-> body, form |-> form]

\* request setting the JSON content type on every request
request_always_json(a, method, path, body, query) ==
    Request(method, a.baseUrl, path, query,
            << <<"X-API-Key", a.apiKey>>, <<"Accept", "application/json">>,
               <<"Content-Type", "application/json">> >>,
            IF body.present THEN "json" ELSE "none", body, <<>>)

\* TypeScript AltTextApi.request(method, path, { body, query }) up to the fetch
request(a, method, path, body, query) ==
    LET headers == << <<"X-API-Key", a.apiKey>>, <<"Accept", "application/json">> >>
    IN  Request(method, a.baseUrl, path, query,
                IF body.present
                THEN Append(headers, <<"Content-Type", "application/json">>)
                ELSE headers,
                IF body.present THEN "json" ELSE "none",
                body, <<>>)

\* Ruby AltTextApi#build_request(method, uri, body)
build_request(a, method, path, query, body) ==
    LET req == << <<"X-API-Key", a.apiKey>>, <<"Accept", "application/json">> >>
    IN  Request(method, a.baseUrl, path, query,
                IF body.present
                THEN Append(req, <<"Content-Type", "application/json">>)
                ELSE req,
                IF body.present THEN "json" ELSE "none",
                body, <<>>)

\* Ruby AltTextApi#request(method, path, body:, query:) up to @http.request
rb_request(a, method, path, body, query) ==
    build_request(a, method, path, encode_www_form(query), body)

\* the options of a call with none supplied; id holds the characters of the
\* asset id that goes into a request path
NoOpts ==
    [name |-> Undefined, webhookUrl |-> Undefined, notificationEmail |-> Undefined,
     page |-> Undefined, limit |-> Undefined, lang |-> Undefined, url |-> Undefined,
     sort |-> Undefined, direction |-> Undefined, query |-> Undefined,
     assetId |-> Undefined, id |-> <<>>, raw |-> Undefined, keywords |-> Undefined,
     negativeKeywords |-> Undefined, gptPrompt |-> Undefined, maxChars |-> Undefined,
     overwrite |-> Undefined, tags |-> Undefined, metadata |-> Undefined,
     altText |-> Undefined, html |-> Undefined, includeExisting |-> Undefined,
     email |-> Undefined, csvFile |-> Undefined]

(* ------------------------- TypeScript client --------------------------- *)
getAccount(a, opts) == request(a, "GET", <<"/", "account">>, NoBody, <<>>)

updateAccount(a, opts) ==
    LET envelope == assignDefined(<<>>, << <<"name", opts.name>>,
                                           <<"webhook_url", opts.webhookUrl>>,
                                           <<"notification_email", opts.notificationEmail>> >>)
    IN  request(a, "PATCH", <<"/", "account">>, JsonBody("account", envelope, <<>>), <<>>)

listImages(a, opts) ==
    LET query == buildQuery(<< <<"page", opts.page>>, <<"limit", opts.limit>>,
                               <<"lang", opts.lang>>, <<"url", opts.url>>,
                               <<"sort", opts.sort>>, <<"direction", opts.direction>> >>)
    IN  request(a, "GET", <<"/", "images">>, NoBody, query)

searchImages(a, opts) ==
    LET query == buildQuery(<< <<"q", opts.query>>, <<"limit", opts.limit>>,
                               <<"lang", opts.lang>> >>)
    IN  request(a, "GET", <<"/", "images", "/", "search">>, NoBody, query)

getImage(a, opts) ==
    LET query == buildQuery(<< <<"lang", opts.lang>> >>)
    IN  request(a, "GET", <<"/", "images", "/">> \o encodeURIComponent(opts.id),
                NoBody, query)

generateImage(a, imageSource, opts) ==
    LET imageEnvelope == assignDefined(imageSource,
                             << <<"asset_id", opts.assetId>>,
                                <<"tags", opts.tags>>,
                                <<"metadata", opts.metadata>> >>)
        body == assignDefined(<< <<"async", Val("boolean", "false")>> >>,
                              << <<"lang", opts.lang>>,
                                 <<"keywords", opts.keywords>>,
                                 <<"negative_keywords", opts.negativeKeywords>>,
                                 <<"gpt_prompt", opts.gptPrompt>>,
                                 <<"max_chars", opts.maxChars>>,
                                 <<"overwrite", opts.overwrite>> >>)
    IN  request(a, "POST", <<"/", "images">>, JsonBody("image", imageEnvelope, body), <<>>)

createImage(a, opts) == generateImage(a, << <<"url", opts.url>> >>, opts)

createImageFromRaw(a, opts) == generateImage(a, << <<"raw", opts.raw>> >>, opts)

\* translateImage leaving async to the upstream's default
translateImage_no_async(a, opts) ==
    request(a, "POST", <<"/", "images">>,
            JsonBody("image", << <<"asset_id", opts.assetId>> >>,
                     << <<"lang", opts.lang>> >>),
            <<>>)

translateImage(a, opts) ==
    request(a, "POST", <<"/", "images">>,
            JsonBody("image", << <<"asset_id", opts.assetId>> >>,
                     << <<"lang", opts.lang>>, <<"async", Val("boolean", "false")>> >>),
            <<>>)

updateImage(a, opts) ==
    LET imageEnvelope == assignDefined(<<>>, << <<"alt_text", opts.altText>>,
                                                <<"tags", opts.tags>>,
                                                <<"metadata", opts.metadata>> >>)
        body == assignDefined(<<>>, << <<"lang", opts.lang>>,
                                       <<"overwrite", opts.overwrite>> >>)
    IN  request(a, "PATCH", <<"/", "images", "/">> \o encodeURIComponent(opts.id),
                JsonBody("image", imageEnvelope, body), <<>>)

deleteImage(a, opts) ==
    request(a, "DELETE", <<"/", "images", "/">> \o encodeURIComponent(opts.id),
            NoBody, <<>>)

\* bulkCreate builds its own fetch: a FormData body, two headers
bulkCreate(a, opts) ==
    LET formData == << <<"file", opts.csvFile.v>> >>
                    \o (IF js_truthy(opts.email) THEN << <<"email", opts.email.v>> >>
                        ELSE <<>>)
    IN  Request("POST", a.baseUrl, <<"/", "images", "/", "bulk_create">>, <<>>,
                << <<"X-API-Key", a.apiKey>>, <<"Accept", "application/json">> >>,
                "multipart", NoBody, formData)

scrapePage(a, opts) ==
    LET pageScrapeEnvelope == assignDefined(<< <<"url", opts.url>> >>,
                                            << <<"html", opts.html>> >>)
        body == assignDefined(<<>>, << <<"include_existing", opts.includeExisting>>,
                                       <<"lang", opts.lang>>,
                                       <<"keywords", opts.keywords>>,
                                       <<"negative_keywords", opts.negativeKeywords>>,
                                       <<"gpt_prompt", opts.gptPrompt>>,
                                       <<"max_chars", opts.maxChars>>,
                                       <<"overwrite", opts.overwrite>> >>)
    IN  request(a, "POST", <<"/", "images", "/", "page_scrape">>,
                JsonBody("page_scrape", pageScrapeEnvelope, body), <<>>)

(* ----------------------------- Ruby client ----------------------------- *)
get_account(a, opts) == rb_request(a, "GET", <<"/", "account">>, NoBody, <<>>)

update_account(a, opts) ==
    LET account_envelope == assign_if(<<>>, << <<"name", opts.name>>,
                                               <<"webhook_url", opts.webhookUrl>>,
                                               <<"notification_email", opts.notificationEmail>> >>)
    IN  rb_request(a, "PATCH", <<"/", "account">>,
                   JsonBody("account", account_envelope, <<>>), <<>>)

list_images(a, opts) ==
    LET query == assign_if(<<>>, << <<"page", opts.page>>, <<"limit", opts.limit>>,
                                    <<"lang", opts.lang>> >>)
    IN  rb_request(a, "GET", <<"/", "images">>, NoBody, query)

search_images(a, opts) ==
    LET params == assign_if(<< <<"q", opts.query>> >>,
                            << <<"limit", opts.limit>>, <<"lang", opts.lang>> >>)
    IN  rb_request(a, "GET", <<"/", "images", "/", "search">>, NoBody, params)

get_image(a, opts) ==
    LET query == assign_if(<<>>, << <<"lang", opts.lang>> >>)
    IN  rb_request(a, "GET", <<"/", "images", "/">> \o encode_uri_component(opts.id),
                   NoBody, query)

\* create_image and create_image_from_raw are the same statements on
\* { url: url } and { raw: raw }
rb_generate(a, image_source, opts) ==
    LET image_envelope == assign_if(image_source,
                              << <<"asset_id", opts.assetId>>,
                                 <<"tags", opts.tags>>,
                                 <<"metadata", opts.metadata>> >>)
        body == assign_unless_nil(
                    assign_if(<< <<"async", Val("boolean", "false")>> >>,
                              << <<"lang", opts.lang>>,
                                 <<"keywords", opts.keywords>>,
                                 <<"negative_keywords", opts.negativeKeywords>>,
                                 <<"gpt_prompt", opts.gptPrompt>>,
                                 <<"max_chars", opts.maxChars>> >>),
                    << <<"overwrite", opts.overwrite>> >>)
    IN  rb_request(a, "POST", <<"/", "images">>, JsonBody("image", image_envelope, body), <<>>)

create_image(a, opts) == rb_generate(a, << <<"url", opts.url>> >>, opts)

create_image_from_raw(a, opts) == rb_generate(a, << <<"raw", opts.raw>> >>, opts)

translate_image(a, opts) ==
    rb_request(a, "POST", <<"/", "images">>,
               JsonBody("image", << <<"asset_id", opts.assetId>> >>,
                        << <<"lang", opts.lang>>, <<"async", Val("boolean", "false")>> >>),
               <<>>)

update_image(a, opts) ==
    LET image_envelope == assign_if(assign_unless_nil(<<>>, << <<"alt_text", opts.altText>> >>),
                                    << <<"tags", opts.tags>>,
                                       <<"metadata", opts.metadata>> >>)
        body == assign_unless_nil(assign_if(<<>>, << <<"lang", opts.lang>> >>),
                                  << <<"overwrite", opts.overwrite>> >>)
    IN  rb_request(a, "PATCH", <<"/", "images", "/">> \o encode_uri_component(opts.id),
                   JsonBody("image", image_envelope, body), <<>>)

delete_image(a, opts) ==
    rb_request(a, "DELETE", <<"/", "images", "/">> \o encode_uri_component(opts.id),
               NoBody, <<>>)

\* bulk_create builds its own Net::HTTP::Post with set_form
bulk_create(a, opts) ==
    LET form_data == << <<"file", opts.csvFile.v>> >>
                     \o (IF rb_truthy(opts.email) THEN << <<"email", opts.email.v>> >>
                         ELSE <<>>)
    IN  Request("POST", a.baseUrl, <<"/", "images", "/", "bulk_create">>, <<>>,
                << <<"X-API-Key", a.apiKey>>, <<"Accept", "application/json">> >>,
                "multipart", NoBody, form_data)

scrape_page(a, opts) ==
    LET page_scrape_envelope == assign_if(<< <<"url", opts.url>> >>,
                                          << <<"html", opts.html>> >>)
        body == assign_unless_nil(
                    assign_if(assign_unless_nil(<<>>,
                                  << <<"include_existing", opts.includeExisting>> >>),
                              << <<"lang", opts.lang>>,
                                 <<"keywords", opts.keywords>>,
                                 <<"negative_keywords", opts.negativeKeywords>>,
                                 <<"gpt_prompt", opts.gptPrompt>>,
                                 <<"max_chars", opts.maxChars>> >>),
                    << <<"overwrite", opts.overwrite>> >>)
    IN  rb_request(a, "POST", <<"/", "images", "/", "page_scrape">>,
                   JsonBody("page_scrape", page_scrape_envelope, body), <<>>)

(***************************************************************************)
(* Pagination headers.                                                     *)
(***************************************************************************)
Digits == <<"0", "1", "2", "3", "4", "5", "6", "7", "8", "9">>
IsDigit(ch) == \E d \in DOMAIN Digits : Digits[d] = ch
RECURSIVE trimStart(_)
\* leading white space is skipped by parseInt and by String#to_i
trimStart(cs) == IF cs # <<>> /\ cs[1] = " " THEN trimStart(Tail(cs)) ELSE cs

RECURSIVE leadingDigits(_)
\* the longest run of digits the text starts with
leadingDigits(cs) ==
    IF cs # <<>> /\ IsDigit(cs[1]) THEN <<cs[1]>> \o leadingDigits(Tail(cs)) ELSE <<>>

RECURSIVE digitsValue(_, _)
digitsValue(ds, acc) ==
    LET DigitValue(ch) == (CHOOSE d \in DOMAIN Digits : Digits[d] = ch) - 1
    IN
    IF ds = <<>> THEN acc ELSE digitsValue(Tail(ds), 10 * acc + DigitValue(ds[1]))

\* a JavaScript number that may be NaN
NaN == [nan |-> TRUE, n |-> 0]
\* parseInt(text, 10): optional sign, then the leading digits; NaN without any
parseInt(cs) ==
    LET Num(n) == [nan |-> FALSE, n |-> n]
    IN
    LET t == trimStart(cs)
        signed == t # <<>> /\ t[1] \in {"-", "+"}
        ds == leadingDigits(IF signed THEN Tail(t) ELSE t)
    IN  IF ds = <<>> THEN NaN
        ELSE Num(IF signed /\ t[1] = "-" THEN 0 - digitsValue(ds, 0) ELSE digitsValue(ds, 0))

\* Ruby String#to_i: the same reading, 0 without any digits
to_i(cs) ==
    LET t == trimStart(cs)
        signed == t # <<>> /\ t[1] \in {"-", "+"}
        ds == leadingDigits(IF signed THEN Tail(t) ELSE t)
    IN  IF ds = <<>> THEN 0
        ELSE IF signed /\ t[1] = "-" THEN 0 - digitsValue(ds, 0) ELSE digitsValue(ds, 0)

\* safeParseInt(value, fallback), value being response.headers.get(name)
safeParseInt(value, fallback) ==
    LET parsed == parseInt(IF value.given THEN value.chars ELSE <<>>)
    IN  IF parsed.nan THEN fallback ELSE parsed.n

HeaderNames == {"current-page", "page-items", "total-pages", "total-count"}

\* parsePagination(response)
parsePagination(headers) ==
    [currentPage |-> safeParseInt(headers["current-page"], 1),
     pageItems |-> safeParseInt(headers["page-items"], 20),
     totalPages |-> safeParseInt(headers["total-pages"], 1),
     totalCount |-> safeParseInt(headers["total-count"], 0)]

\* Ruby parse_pagination(response): response[name]&.to_i || default, and
\* response['total-count'].to_i (nil.to_i is 0); the keys current_page,
\* page_items, total_pages, total_count are written as the TypeScript ones
parse_pagination(headers) ==
    [currentPage |-> IF headers["current-page"].given
                     THEN to_i(headers["current-page"].chars) ELSE 1,
     pageItems |-> IF headers["page-items"].given
                   THEN to_i(headers["page-items"].chars) ELSE 20,
     totalPages |-> IF headers["total-pages"].given
                    THEN to_i(headers["total-pages"].chars) ELSE 1,
     totalCount |-> IF headers["total-count"].given
                    THEN to_i(headers["total-count"].chars) ELSE 0]

(***************************************************************************)
(* Formatters of image records.                                            *)
(***************************************************************************)
\* JSON null
Null == [t |-> "null", v |-> ""]

\* an optional collection of a record: not present, or present with items
NoItems == [given |-> FALSE, items |-> <<>>]
Items(seq) == [given |-> TRUE, items |-> seq]

\* an optional number of a record
NoNumber == [given |-> FALSE, n |-> 0]
Number(n) == [given |-> TRUE, n |-> n]

\* an image record as the upstream returns it
ImageRecord(asset_id, alt_text, url, alt_texts, tags, metadata, created_at, error_code, errors) ==
    [asset_id |-> asset_id, alt_text |-> alt_text, url |-> url,
     alt_texts |-> alt_texts, tags |-> tags, metadata |-> metadata,
     created_at |-> created_at, error_code |-> error_code, errors |-> errors]

\* `${value}` in a template literal
js_text(x) ==
    IF x.t = "undefined" THEN "undefined" ELSE IF x.t = "null" THEN "null" ELSE x.v

\* "#{value}" in a Ruby string
rb_text(x) == IF x.t \in {"undefined", "null"} THEN "" ELSE x.v

\* value ?? fallback / value || fallback on nil
IsNullish(x) == x.t \in {"undefined", "null"}

\* n written with at least w digits
Pad(n, w) ==
    IF w = 4
    THEN (IF n < 10 THEN "000" ELSE IF n < 100 THEN "00" ELSE IF n < 1000 THEN "0" ELSE "")
         \o ToString(n)
    ELSE (IF n < 10 THEN "0" ELSE "") \o ToString(n)

\* the UTC calendar date and time of a number of seconds since 1970-01-01,
\* as "YYYY-MM-DDTHH:MM:SS"
UtcDateTime(seconds) ==
    LET days == seconds \div 86400
        rest == seconds % 86400
        z == days + 719468
        era == z \div 146097
        doe == z - era * 146097
        yoe == (doe - doe \div 1460 + doe \div 36524 - doe \div 146096) \div 365
        doy == doe - (365 * yoe + yoe \div 4 - yoe \div 100)
        mp == (5 * doy + 2) \div 153
        d == doy - (153 * mp + 2) \div 5 + 1
        m == IF mp < 10 THEN mp + 3 ELSE mp - 9
        y == yoe + era * 400 + (IF m <= 2 THEN 1 ELSE 0)
    IN  Pad(y, 4) \o "-" \o Pad(m, 2) \o "-" \o Pad(d, 2) \o "T"
        \o Pad(rest \div 3600, 2) \o ":" \o Pad((rest % 3600) \div 60, 2)
        \o ":" \o Pad(rest % 60, 2)

\* JSON.stringify / JSON.generate of an object of strings
stringify(pairs) ==
    "{" \o Join([i \in DOMAIN pairs |->
                    "\"" \o pairs[i][1] \o "\":\"" \o pairs[i][2] \o "\""], ",") \o "}"

\* the lines "  <lang>: <text>"
LanguageLines(pairs) == [i \in DOMAIN pairs |-> "  " \o pairs[i][1] \o ": " \o pairs[i][2]]

\* formatImage printing alt_text as it is
formatImage_raw(image) ==
    << "Asset ID: " \o js_text(image.asset_id),
       "Alt text: " \o js_text(image.alt_text) >>

\* formatImage(image): the lines, which are joined with "\n"
formatImage(image) ==
    LET \* new Date(seconds * 1000).toISOString()
        toISOString(seconds) == UtcDateTime(seconds) \o ".000Z"
    IN
    << "Asset ID: " \o js_text(image.asset_id),
       "Alt text: " \o (IF IsNullish(image.alt_text) THEN "(none)" ELSE image.alt_text.v) >>
    \o (IF js_truthy(image.url) THEN <<"URL: " \o image.url.v>> ELSE <<>>)
    \o (IF image.alt_texts.given /\ Len(image.alt_texts.items) > 0
        THEN <<"Languages:">> \o LanguageLines(image.alt_texts.items) ELSE <<>>)
    \o (IF image.tags.given /\ Len(image.tags.items) > 0
        THEN <<"Tags: " \o Join(image.tags.items, ", ")>> ELSE <<>>)
    \o (IF image.metadata.given /\ Len(image.metadata.items) > 0
        THEN <<"Metadata: " \o stringify(image.metadata.items)>> ELSE <<>>)
    \o (IF image.created_at.given
        THEN <<"Created: " \o toISOString(image.created_at.n)>> ELSE <<>>)
    \o (IF js_truthy(image.error_code)
        THEN <<"Error code: " \o image.error_code.v>> ELSE <<>>)
    \o (IF image.errors.given /\ Len(image.errors.items) > 0
        THEN <<"Errors: " \o Join(Flat(image.errors.items), ", ")>> ELSE <<>>)

\* Ruby Formatters.format_image(image)
format_image(image) ==
    LET \* Time.at(seconds).utc.iso8601
        iso8601(seconds) == UtcDateTime(seconds) \o "Z"
    IN
    << "Asset ID: " \o rb_text(image.asset_id),
       "Alt text: " \o (IF IsNullish(image.alt_text) THEN "(none)" ELSE image.alt_text.v) >>
    \o (IF ~IsNullish(image.url) THEN <<"URL: " \o image.url.v>> ELSE <<>>)
    \o (IF Len(image.alt_texts.items) > 0
        THEN <<"Languages:">> \o LanguageLines(image.alt_texts.items) ELSE <<>>)
    \o (IF image.tags.given /\ Len(image.tags.items) > 0
        THEN <<"Tags: " \o Join(image.tags.items, ", ")>> ELSE <<>>)
    \o (IF image.metadata.given /\ Len(image.metadata.items) > 0
        THEN <<"Metadata: " \o stringify(image.metadata.items)>> ELSE <<>>)
    \o (IF image.created_at.given
        THEN <<"Created: " \o iso8601(image.created_at.n)>> ELSE <<>>)
    \o (IF Len(image.errors.items) > 0
        THEN <<"Errors: " \o Join(Flat(image.errors.items), ", ")>> ELSE <<>>)

\* formatImageList(result): the lines
formatImageList(result) ==
    LET \* the line of one image in a list
        ListLine(image) ==
            "- " \o js_text(image.asset_id) \o ": "
            \o (IF IsNullish(image.alt_text) THEN "(no alt text)" ELSE image.alt_text.v)
    IN
    << "Found " \o ToString(result.pagination.totalCount) \o " images (page "
       \o ToString(result.pagination.currentPage) \o " of "
       \o ToString(result.pagination.totalPages) \o ")",
       "" >>
    \o (IF Len(result.images) = 0 THEN <<"No images found.">>
        ELSE [i \in DOMAIN result.images |-> ListLine(result.images[i])])

\* Ruby Formatters.format_image_list(result)
format_image_list(result) ==
    LET list_line(image) ==
            "- " \o rb_text(image.asset_id) \o ": "
            \o (IF IsNullish(image.alt_text) THEN "(no alt text)" ELSE image.alt_text.v)
    IN
    << "Found " \o ToString(result.pagination.totalCount) \o " images (page "
       \o ToString(result.pagination.currentPage) \o " of "
       \o ToString(result.pagination.totalPages) \o ")",
       "" >>
    \o (IF Len(result.images) = 0 THEN <<"No images found.">>
        ELSE [i \in DOMAIN result.images |-> list_line(result.images[i])])

(***************************************************************************)
(* Formatters of the account record and of a page scrape result.           *)
(***************************************************************************)
\* formatAccount showing no fewer than zero credits
formatAccount_clamped(account) ==
    LET creditsRemaining == account.usage_limit.n - account.usage.n
    IN  << "Account: " \o js_text(account.name),
           "Credits: " \o ToString(IF creditsRemaining < 0 THEN 0 ELSE creditsRemaining)
           \o " remaining (" \o ToString(account.usage.n) \o " used of "
           \o ToString(account.usage_limit.n) \o ")" >>

\* formatAccount(account): the lines, which are joined with "\n"
formatAccount(account) ==
    LET creditsRemaining == account.usage_limit.n - account.usage.n
    IN  << "Account: " \o js_text(account.name),
           "Credits: " \o ToString(creditsRemaining) \o " remaining ("
           \o ToString(account.usage.n) \o " used of "
           \o ToString(account.usage_limit.n) \o ")",
           "Default language: " \o js_text(account.default_lang) >>
        \o (IF js_truthy(account.gpt_prompt)
            THEN <<"Custom prompt: " \o account.gpt_prompt.v>> ELSE <<>>)
        \o (IF js_truthy(account.max_chars)
            THEN <<"Max chars: " \o account.max_chars.v>> ELSE <<>>)
        \o (IF js_truthy(account.webhook_url)
            THEN <<"Webhook: " \o account.webhook_url.v>> ELSE <<>>)
        \o (IF js_truthy(account.notification_email)
            THEN <<"Notification email: " \o account.notification_email.v>> ELSE <<>>)
        \o << "Whitelabel: " \o js_text(account.whitelabel),
              "No quotes: " \o js_text(account.no_quotes) >>
        \o (IF js_truthy(account.ending_period) THEN <<"Ending period: true">> ELSE <<>>)

\* Ruby Formatters.format_account(account)
format_account(account) ==
    LET credits_remaining == account.usage_limit.n - account.usage.n
    IN  << "Account: " \o rb_text(account.name),
           "Credits: " \o ToString(credits_remaining) \o " remaining ("
           \o ToString(account.usage.n) \o " used of "
           \o ToString(account.usage_limit.n) \o ")",
           "Default language: " \o rb_text(account.default_lang) >>
        \o (IF rb_truthy(account.gpt_prompt)
            THEN <<"Custom prompt: " \o account.gpt_prompt.v>> ELSE <<>>)
        \o (IF rb_truthy(account.max_chars)
            THEN <<"Max chars: " \o account.max_chars.v>> ELSE <<>>)
        \o (IF rb_truthy(account.webhook_url)
            THEN <<"Webhook: " \o account.webhook_url.v>> ELSE <<>>)
        \o (IF rb_truthy(account.notification_email)
            THEN <<"Notification email: " \o account.notification_email.v>> ELSE <<>>)
        \o << "Whitelabel: " \o rb_text(account.whitelabel),
              "No quotes: " \o rb_text(account.no_quotes) >>
        \o (IF rb_truthy(account.ending_period) THEN <<"Ending period: true">> ELSE <<>>)

\* formatScrapeResult(result, url): the lines, which are joined with "\n"
formatScrapeResult(result, url) ==
    LET scraped == result.scraped_images
        status(img) ==
            IF js_truthy(img.skip_reason) THEN "skipped: " \o img.skip_reason.v ELSE "queued"
        dims(img) ==
            IF img.width.t # "undefined" /\ img.height.t # "undefined"
            THEN " (" \o js_text(img.width) \o "x" \o js_text(img.height) \o ")"
            ELSE ""
        line(img) ==
            "  - " \o (IF IsNullish(img.src) THEN "(no src)" ELSE img.src.v)
            \o dims(img) \o " [" \o status(img) \o "]"
    IN  << "Scraped " \o url,
           "Images found: " \o ToString(Len(scraped)),
           "Images queued for processing: " \o ToString(result.total_processed.n),
           "" >>
        \o (IF Len(scraped) > 0
            THEN <<"Discovered images:">> \o [i \in DOMAIN scraped |-> line(scraped[i])]
            ELSE <<>>)
        \o (IF result.errors.given /\ Len(result.errors.items) > 0
            THEN <<"\nErrors: " \o Join(Flat(result.errors.items), ", ")>> ELSE <<>>)
        \o (IF result.total_processed.n > 0
            THEN <<"\nNote: Images are being processed asynchronously. Use list_images or get_image to check results.">>
            ELSE <<>>)

\* Ruby Formatters.format_scrape_result(result, url)
format_scrape_result(result, url) ==
    LET scraped == result.scraped_images
        status(img) ==
            IF rb_truthy(img.skip_reason) THEN "skipped: " \o img.skip_reason.v ELSE "queued"
        line(img) ==
            "  - " \o (IF rb_truthy(img.src) THEN img.src.v ELSE "(no src)")
            \o " [" \o status(img) \o "]"
    IN  << "Scraped " \o url,
           "Images found: " \o ToString(Len(scraped)),
           "Images queued for processing: " \o ToString(result.total_processed.n),
           "" >>
        \o (IF Len(scraped) > 0
            THEN <<"Discovered images:">> \o [i \in DOMAIN scraped |-> line(scraped[i])]
            ELSE <<>>)
        \o (IF Len(result.errors.items) > 0
            THEN <<"\nErrors: " \o Join(Flat(result.errors.items), ", ")>> ELSE <<>>)
        \o (IF result.total_processed.n > 0
            THEN <<"\nNote: Images are being processed asynchronously. Use list_images or get_image to check results.">>
            ELSE <<>>)

(***************************************************************************)
(* The state machine.                                                      *)
(***************************************************************************)
\* no tool call in progress
CallsIdle ==
    /\ httpStarted = FALSE
    /\ pc = [c \in Calls |-> "idle"]
    /\ tool = [c \in Calls |-> "none"]
    /\ file = [c \in Calls |-> NoFile]
    /\ attempts = [c \in Calls |-> 0]
    /\ retried = [c \in Calls |-> FALSE]
    /\ torn = [c \in Calls |-> FALSE]
    /\ seen = [c \in Calls |-> <<>>]
    /\ ret = [c \in Calls |-> NoResult]
    /\ failed = [c \in Calls |-> FALSE]
    /\ content = [c \in Calls |-> NoContent]
    /\ invoked = [c \in Calls |-> 0]
    /\ onDisk = [c \in Calls |-> NoFile]

\* no client method or formatter called yet
NoCall == [method |-> "none"]
Nothing == [kind |-> "none"]
ClientIdle ==
    /\ given = NoCall
    /\ sent = NoCall
    /\ reply = Nothing
    /\ page = Nothing
    /\ shown = Nothing

\* the server process is started: nothing of the module has run yet
Init ==
    LET \* the process environments of the model: the key not set, set to the empty
        \* string, or set
        ApiKeys == {Absent, "", "key-123"}
    IN
    LET Envs == { [ALTTEXT_API_KEY |-> k, ALTTEXT_API_BASE_URL |-> NoText] : k \in ApiKeys }
    IN
    /\ impl \in {"ts", "ruby"}
    /\ env \in Envs
    /\ proc = "start"
    /\ api = NoApi
    /\ registered = {}
    /\ tag = Absent
    /\ CallsIdle
    /\ ClientIdle

\* the module body runs: the key check, then the client and the server are
\* constructed and the tools registered
Startup ==
    /\ proc = "start"
    /\ IF keyMissing(env.ALTTEXT_API_KEY)
       THEN /\ proc' = "exit1"
            /\ UNCHANGED <<api, registered>>
       ELSE /\ api' = IF impl = "ruby"
                      THEN initialize(env.ALTTEXT_API_KEY, env.ALTTEXT_API_BASE_URL)
                      ELSE AltTextApi(env.ALTTEXT_API_KEY, env.ALTTEXT_API_BASE_URL)
            /\ registered' = Tools
            /\ proc' = "loaded"
    /\ UNCHANGED <<impl, env, callVars, clientVars>>

\* main(): the server connects to the stdio transport, or the connect
\* rejects and the catch handler exits
Connect ==
    /\ proc = "loaded"
    /\ \/ proc' = "serving"
       \/ proc' = "exit1"
    /\ UNCHANGED <<impl, env, api, registered, callVars, clientVars>>

\* the handler's try block ends with the client's result r (or the throw of
\* a local step): the success text, or the catch block's errorContent
\* (Ruby: Formatters.error_response)
HandlerEnd(c, r) ==
    LET ok == IF r.kind = "return"
              THEN handlerSuccess(tool[c], file[c].base, r.data)
              ELSE r
    IN  /\ content' = [content EXCEPT ![c] =
              IF ok.kind = "raise"
              THEN IF impl = "ruby" THEN error_response(ok.exc) ELSE errorContent(ok.exc)
              ELSE ok.data]
        /\ failed' = [failed EXCEPT ![c] = (ok.kind = "raise")]
        /\ ret' = [ret EXCEPT ![c] = r]
        /\ pc' = [pc EXCEPT ![c] = "done"]

\* the protocol layer delivers a tool call: the handler starts
Invoke(c) ==
    LET ImageFiles ==
            { File("/img/cat.png", TRUE, ".png", "cat.png", TRUE, 2048),
              File("/img/LIMIT.PNG", TRUE, ".PNG", "LIMIT.PNG", TRUE, MAX_FILE_SIZE),
              File("/img/huge.png", TRUE, ".png", "huge.png", TRUE, MAX_FILE_SIZE + 1),
              File("/img/gone.png", FALSE, ".png", "gone.png", FALSE, 0),
              File("/img/album.png", TRUE, ".png", "album.png", FALSE, 4096),
              File("/img/DOG.JPG", TRUE, ".JPG", "DOG.JPG", TRUE, MAX_FILE_SIZE + 1),
              File("/doc/notes.txt", TRUE, ".txt", "notes.txt", TRUE, 100),
              File("/doc/README", TRUE, "", "README", TRUE, 100) }
    IN
    LET CsvFiles ==
            { File("/data/images.csv", TRUE, ".csv", "images.csv", TRUE, 300),
              File("/data/huge.csv", TRUE, ".csv", "huge.csv", TRUE, MAX_FILE_SIZE + 1),
              File("/data/gone.csv", FALSE, ".csv", "gone.csv", FALSE, 0),
              File("/data/dir", TRUE, "", "dir", FALSE, 4096) }
    IN
    LET \* the paths the model's callers pass to each file tool
        FilesFor(t) == IF t = "bulk_create" THEN CsvFiles ELSE ImageFiles
    IN
    /\ pc[c] = "idle"
    /\ proc = "serving"
    /\ UNCHANGED <<startVars, clientVars>>
    /\ \E t \in Tools :
         /\ tool' = [tool EXCEPT ![c] = t]
         /\ IF t \in FileTools
            THEN \E f \in FilesFor(t) :
                   /\ file' = [file EXCEPT ![c] = f]
                   /\ onDisk' = [onDisk EXCEPT ![c] = f]
                   /\ pc' = [pc EXCEPT ![c] = "validate"]
            ELSE /\ file' = file
                 /\ onDisk' = onDisk
                 /\ pc' = [pc EXCEPT ![c] = "call"]
    /\ UNCHANGED <<impl, httpStarted, attempts, retried, torn, seen, ret,
                   failed, content, invoked>>

\* await resolveAndValidateFile(...): a throw goes to the handler's catch
Validate(c) ==
    LET \* the allow-list each file tool passes to resolveAndValidateFile
        AllowList(t) ==
            IF t = "generate_alt_text_from_file" THEN ALLOWED_IMAGE_EXTENSIONS ELSE NoExtensions
    IN
    /\ pc[c] = "validate"
    /\ UNCHANGED <<startVars, clientVars>>
    /\ LET r == resolveAndValidateFile(file[c], AllowList(tool[c]))
       IN  IF r.kind = "raise"
           THEN HandlerEnd(c, r)
           ELSE /\ pc' = [pc EXCEPT ![c] = "read"]
                /\ UNCHANGED <<ret, failed, content>>
    /\ UNCHANGED <<impl, httpStarted, tool, file, attempts, retried, torn, seen,
                   invoked, onDisk>>

\* between the handler's two awaits another process changes what the path
\* leads to: the link is retargeted, the file replaced, grown or removed
Retarget(c) ==
    LET Replacements(t) ==
            IF t = "bulk_create"
            THEN { File(file[c].path, TRUE, ".csv", file[c].base, TRUE, MAX_FILE_SIZE + 1),
                   File(file[c].path, FALSE, ".csv", file[c].base, FALSE, 0) }
            ELSE { File(file[c].path, TRUE, ".png", file[c].base, TRUE, MAX_FILE_SIZE + 1),
                   File(file[c].path, TRUE, ".txt", file[c].base, TRUE, 100),
                   File(file[c].path, TRUE, ".png", file[c].base, FALSE, 4096) }
    IN
    /\ pc[c] = "read"
    /\ onDisk[c] = file[c]
    /\ \E f \in Replacements(tool[c]) : onDisk' = [onDisk EXCEPT ![c] = f]
    /\ UNCHANGED <<impl, httpStarted, pc, tool, file, attempts, retried, torn,
                   seen, ret, failed, content, invoked, startVars, clientVars>>

\* await readFile(file_path): the path is opened again, not the resolved
\* path the validation looked at; reading throws when the path leads to
\* nothing or to a directory
ReadFile(c) ==
    /\ pc[c] = "read"
    /\ UNCHANGED <<startVars, clientVars>>
    /\ IF ~onDisk[c].resolves
       THEN HandlerEnd(c, Raised(OtherError("Error",
                "ENOENT: no such file or directory, open '" \o file[c].path \o "'")))
       ELSE IF ~onDisk[c].isFile
       THEN HandlerEnd(c, Raised(OtherError("Error",
                "EISDIR: illegal operation on a directory, read")))
       ELSE /\ pc' = [pc EXCEPT ![c] = "call"]
            /\ UNCHANGED <<ret, failed, content>>
    /\ UNCHANGED <<impl, httpStarted, tool, file, attempts, retried, torn,
                   seen, invoked, onDisk>>

\* a handler that calls a second client method after the first
ApiCall_fan_out(c) ==
    /\ pc[c] = "call"
    /\ UNCHANGED <<startVars, clientVars>>
    /\ retried' = [retried EXCEPT ![c] = FALSE]
    /\ invoked' = [invoked EXCEPT ![c] = @ + 2]
    /\ pc' = [pc EXCEPT ![c] = "attempt"]
    /\ UNCHANGED <<impl, httpStarted, tool, file, attempts, torn, seen, ret,
                   failed, content, onDisk>>

\* the handler calls its one client method
ApiCall(c) ==
    /\ pc[c] = "call"
    /\ UNCHANGED <<startVars, clientVars>>
    /\ retried' = [retried EXCEPT ![c] = FALSE]
    /\ invoked' = [invoked EXCEPT ![c] = @ + 1]
    /\ pc' = [pc EXCEPT ![c] = "attempt"]
    /\ UNCHANGED <<impl, httpStarted, tool, file, attempts, torn, seen, ret,
                   failed, content, onDisk>>

\* what the client does with a transport exception, by implementation and
\* by the method the tool calls
OnError(c, name) ==
    IF impl = "ruby"
    THEN IF tool[c] = "bulk_create"
         THEN bulk_create_rescue(name, retried[c])
         ELSE request_rescue(name, retried[c])
    ELSE IF tool[c] = "bulk_create"
         THEN bulkCreate_catch(name, retried[c])
         ELSE request_catch(name, retried[c])

\* the client method ends by raising for the transport exception `name`
RaiseFor(c, name) ==
    HandlerEnd(c, IF OnError(c, name) = "connection_error"
                  THEN Raised(IF impl = "ruby" THEN connection_error(name)
                              ELSE connectionError(name))
                  ELSE Raised(OtherError(name, name)))

\* one network attempt starts. TypeScript: fetch(url, opts) on a connection
\* of its own. Ruby: ensure_connected (@http.start unless @http.started?,
\* which may raise) and then @http.request(req) on the shared connection
Attempt(c) ==
    LET \* the exceptions of UpstreamErrors that opening a connection can raise
        StartErrors == {"ECONNREFUSED", "SSLError"}
    IN
    /\ pc[c] = "attempt"
    /\ UNCHANGED <<startVars, clientVars>>
    /\ attempts[c] < AttemptCap
    /\ attempts' = [attempts EXCEPT ![c] = @ + 1]
    /\ torn' = [torn EXCEPT ![c] = FALSE]
    /\ \/ /\ httpStarted' = (httpStarted \/ impl = "ruby")
          /\ pc' = [pc EXCEPT ![c] = "inflight"]
          /\ UNCHANGED <<seen, retried, ret, failed, content>>
       \/ /\ impl = "ruby" /\ ~httpStarted
          /\ \E name \in StartErrors :
               /\ seen' = [seen EXCEPT ![c] = Append(@, TransportError(name))]
               /\ IF OnError(c, name) = "retry"
                  THEN /\ retried' = [retried EXCEPT ![c] = TRUE]
                       /\ pc' = pc
                       /\ UNCHANGED <<ret, failed, content>>
                  ELSE /\ RaiseFor(c, name)
                       /\ UNCHANGED retried
          /\ UNCHANGED httpStarted
    /\ UNCHANGED <<impl, tool, file, invoked, onDisk>>

\* the attempt in flight ends with a response: handleResponse /
\* handle_response, and the handler goes on with what it returns or raises
Respond(c) ==
    /\ pc[c] = "inflight"
    /\ UNCHANGED <<startVars, clientVars>>
    /\ \E o \in InFlightOutcomes(c) :
         /\ o.kind = "response"
         /\ HandlerEnd(c, IF impl = "ruby" THEN handle_response(o) ELSE handleResponse(o))
         /\ seen' = [seen EXCEPT ![c] = Append(@, o)]
    /\ UNCHANGED <<impl, httpStarted, tool, file, attempts, retried, torn,
                   invoked, onDisk>>

\* the attempt in flight ends with a transport exception.
\* Ruby rescues the closed-connection classes by @http.finish (which closes
\* the socket under every other request in flight on it) and one retry
Fail(c) ==
    /\ pc[c] = "inflight"
    /\ UNCHANGED <<startVars, clientVars>>
    /\ \E o \in InFlightOutcomes(c) :
         /\ o.kind = "error"
         /\ LET finishes == impl = "ruby" /\ o.name \in ClosedErrors
            IN  /\ httpStarted' = IF finishes THEN FALSE ELSE httpStarted
                /\ torn' = IF finishes /\ httpStarted
                           THEN [d \in Calls |->
                                   torn[d] \/ (d # c /\ pc[d] = "inflight")]
                           ELSE torn
         /\ IF OnError(c, o.name) = "retry"
            THEN /\ retried' = [retried EXCEPT ![c] = TRUE]
                 /\ pc' = [pc EXCEPT ![c] = "attempt"]
                 /\ UNCHANGED <<ret, failed, content>>
            ELSE /\ RaiseFor(c, o.name)
                 /\ UNCHANGED retried
         /\ seen' = [seen EXCEPT ![c] = Append(@, o)]
    /\ UNCHANGED <<impl, tool, file, attempts, invoked, onDisk>>

\* the protocol layer has taken the response; the slot serves the next call
Deliver(c) ==
    /\ pc[c] = "done"
    /\ UNCHANGED <<startVars, clientVars>>
    /\ pc' = [pc EXCEPT ![c] = "idle"]
    /\ tool' = [tool EXCEPT ![c] = "none"]
    /\ file' = [file EXCEPT ![c] = NoFile]
    /\ attempts' = [attempts EXCEPT ![c] = 0]
    /\ retried' = [retried EXCEPT ![c] = FALSE]
    /\ torn' = [torn EXCEPT ![c] = FALSE]
    /\ seen' = [seen EXCEPT ![c] = <<>>]
    /\ ret' = [ret EXCEPT ![c] = NoResult]
    /\ failed' = [failed EXCEPT ![c] = FALSE]
    /\ content' = [content EXCEPT ![c] = NoContent]
    /\ invoked' = [invoked EXCEPT ![c] = 0]
    /\ onDisk' = [onDisk EXCEPT ![c] = NoFile]
    /\ UNCHANGED <<impl, httpStarted>>

Next ==
    \/ Startup
    \/ Connect
    \/ \E c \in Calls :
          \/ Invoke(c)
          \/ Validate(c)
          \/ Retarget(c)
          \/ ReadFile(c)
          \/ ApiCall(c)
          \/ Attempt(c)
          \/ Respond(c)
          \/ Fail(c)
          \/ Deliver(c)

Spec == Init /\ [][Next]_vars

\* the client's steps of one call
ClientStep(c) == Attempt(c) \/ Respond(c) \/ Fail(c)

(***************************************************************************)
(* The client and the formatters called directly, one call at a time, as   *)
(* the test suites call them.                                              *)
(***************************************************************************)
\* an optional argument: left out, or one of these values
Opt(values) == {Undefined} \cup values

\* asset ids, character by character
AssetIds ==
    { <<"img_1">>,
      <<"shp-123", "/", "456">>,
      <<"a", " ", "b", "!">>,
      <<"50", "%", "/", "/", "x", "?", "#">>,
      <<"~", "tmp">>,
      <<"..">>,
      <<>> }

GenerateOpts ==
    { [NoOpts EXCEPT !.assetId = a, !.lang = g, !.keywords = k, !.negativeKeywords = n,
                     !.gptPrompt = q, !.maxChars = m, !.overwrite = o, !.tags = t,
                     !.metadata = d] :
        a \in Opt({Val("string", "a1")}), g \in Opt({Val("string", "en")}),
        k \in Opt({Val("array", "[\"dog\"]")}), n \in Opt({Val("array", "[\"cat\"]")}),
        q \in Opt({Val("string", "Describe {{AltText}}")}), m \in Opt({Val("number", "125")}),
        o \in Opt({Val("boolean", "true"), Val("boolean", "false")}),
        t \in Opt({Val("array", "[\"pets\"]")}), d \in Opt({Val("object", "{\"sku\":\"1\"}")}) }

\* the list and search calls of the model: every combination of options
\* answered without pagination headers, and the call without options
\* answered with every combination of header values
PagedCalls(optsSet, plain) ==
    LET \* what the upstream can put into a pagination header: nothing, digits,
        \* a negative number, letters, digits then letters, the empty value
        HeaderValues ==
            { NoText, Text(<<"4", "2">>), Text(<<"-", "5">>),
              Text(<<"a", "b", "c">>), Text(<<"1", "2", "a">>), Text(<<>>) }
    IN
    LET \* a response without pagination headers
        NoHeaders == [h \in HeaderNames |-> NoText]
    IN
    { <<o, NoHeaders>> : o \in optsSet }
    \cup { <<plain, h>> : h \in [HeaderNames -> HeaderValues] }

AltTexts == {Undefined, Null, Val("string", "A dog on a beach"), Val("string", "")}

\* a client constructed directly: new AltTextApi(key, undefined, tag) /
\* AltTextApi.new(api_key: key); the Ruby constructor takes no tag
ApiInit ==
    LET \* the client-version tags a caller hands to the constructor (Absent: none)
        Versions == {Absent, "1.0.0"}
        \* the base URL overrides: none, and one with no, one and two
        \* trailing slashes
        Staging == <<"https://staging.alttext.ai", "/", "api", "/", "v1">>
        BaseUrls == {NoText, Text(Staging), Text(Staging \o <<"/">>),
                     Text(Staging \o <<"/", "/">>)}
    IN
    /\ impl \in {"ts", "ruby"}
    /\ env \in {[ALTTEXT_API_KEY |-> "key-123", ALTTEXT_API_BASE_URL |-> b] : b \in BaseUrls}
    /\ proc = "library"
    /\ tag \in IF impl = "ruby" THEN {Absent} ELSE Versions
    /\ api = IF impl = "ruby"
             THEN initialize(env.ALTTEXT_API_KEY, env.ALTTEXT_API_BASE_URL)
             ELSE AltTextApi(env.ALTTEXT_API_KEY, env.ALTTEXT_API_BASE_URL)
    /\ registered = {}
    /\ CallsIdle
    /\ ClientIdle

\* the client is constructed and no call is under way
Idle == proc = "library" /\ given = NoCall /\ shown = Nothing

\* a method is called with opts and hands req to the transport; method is
\* the TypeScript name of the method for both clients
Issue(method, opts, req) ==
    /\ given' = [method |-> method, opts |-> opts]
    /\ sent' = req
    /\ shown' = Nothing
    /\ UNCHANGED <<impl, callVars, startVars, tag>>

NoPagination == reply' = Nothing /\ page' = Nothing

\* the response to a list or search request carries these pagination headers
Paginated(headers) ==
    /\ reply' = [kind |-> "headers", headers |-> headers]
    /\ page' = [kind |-> "pagination",
                pagination |-> IF impl = "ruby" THEN parse_pagination(headers)
                               ELSE parsePagination(headers)]

GetAccount ==
    /\ Idle
    /\ Issue("getAccount", NoOpts,
             IF impl = "ruby" THEN get_account(api, NoOpts) ELSE getAccount(api, NoOpts))
    /\ NoPagination

UpdateAccount ==
    LET AccountOpts ==
            { [NoOpts EXCEPT !.name = n, !.webhookUrl = w, !.notificationEmail = e] :
                n \in Opt({Val("string", "Acme"), Val("string", "")}),
                w \in Opt({Val("string", "https://hooks.example/x")}),
                e \in Opt({Val("string", "ops@example.com")}) }
    IN
    /\ Idle
    /\ \E o \in AccountOpts :
             /\ Issue("updateAccount", o,
                      IF impl = "ruby" THEN update_account(api, o) ELSE updateAccount(api, o))
             /\ NoPagination

ListImages ==
    LET \* the Ruby list_images has no url, sort and direction parameters
        ListOpts ==
            { [NoOpts EXCEPT !.page = p, !.limit = l, !.lang = g,
                             !.url = u, !.sort = s, !.direction = d] :
                p \in Opt({Val("number", "2")}), l \in Opt({Val("number", "50")}),
                g \in Opt({Val("string", "en")}),
                u \in IF impl = "ruby" THEN {Undefined} ELSE Opt({Val("string", "https://e.x/a.png")}),
                s \in IF impl = "ruby" THEN {Undefined} ELSE Opt({Val("string", "created_at")}),
                d \in IF impl = "ruby" THEN {Undefined} ELSE Opt({Val("string", "desc")}) }
    IN
    /\ Idle
    /\ \E call \in PagedCalls(ListOpts, NoOpts) :
         LET o == call[1]
         IN  /\ Issue("listImages", o,
                      IF impl = "ruby" THEN list_images(api, o) ELSE listImages(api, o))
             /\ Paginated(call[2])

SearchImages ==
    LET SearchOpts ==
            { [NoOpts EXCEPT !.query = Val("string", "dog"), !.limit = l, !.lang = g] :
                l \in Opt({Val("number", "5"), Val("number", "0")}), g \in Opt({Val("string", "en")}) }
    IN
    /\ Idle
    /\ \E call \in PagedCalls(SearchOpts, [NoOpts EXCEPT !.query = Val("string", "dog")]) :
         LET o == call[1]
         IN  /\ Issue("searchImages", o,
                      IF impl = "ruby" THEN search_images(api, o) ELSE searchImages(api, o))
             /\ Paginated(call[2])

GetImage ==
    LET GetOpts ==
            { [NoOpts EXCEPT !.id = i, !.lang = g] : i \in AssetIds, g \in Opt({Val("string", "fr")}) }
    IN
    /\ Idle
    /\ \E o \in GetOpts :
             /\ Issue("getImage", o,
                      IF impl = "ruby" THEN get_image(api, o) ELSE getImage(api, o))
             /\ NoPagination

CreateImage ==
    /\ Idle
    /\ \E o \in GenerateOpts :
             LET opts == [o EXCEPT !.url = Val("string", "https://e.x/a.png")]
             IN  /\ Issue("createImage", opts,
                          IF impl = "ruby" THEN create_image(api, opts) ELSE createImage(api, opts))
                 /\ NoPagination

CreateImageFromRaw ==
    /\ Idle
    /\ \E o \in GenerateOpts :
             LET opts == [o EXCEPT !.raw = Val("string", "iVBORw0KGgo=")]
             IN  /\ Issue("createImageFromRaw", opts,
                          IF impl = "ruby" THEN create_image_from_raw(api, opts)
                          ELSE createImageFromRaw(api, opts))
                 /\ NoPagination

TranslateImage ==
    LET TranslateOpts ==
            { [NoOpts EXCEPT !.assetId = Val("string", Str(i)), !.lang = Val("string", g)] :
                i \in AssetIds, g \in {"fr", "de"} }
    IN
    /\ Idle
    /\ \E o \in TranslateOpts :
             /\ Issue("translateImage", o,
                      IF impl = "ruby" THEN translate_image(api, o) ELSE translateImage(api, o))
             /\ NoPagination

UpdateImage ==
    LET UpdateOpts ==
            { [NoOpts EXCEPT !.id = i, !.altText = a, !.tags = t, !.metadata = d, !.lang = g,
                             !.overwrite = o] :
                i \in AssetIds, a \in Opt({Val("string", "A dog"), Val("string", "")}),
                t \in Opt({Val("array", "[\"pets\"]")}), d \in Opt({Val("object", "{\"sku\":\"1\"}")}),
                g \in Opt({Val("string", "en")}), o \in Opt({Val("boolean", "true"), Val("boolean", "false")}) }
    IN
    /\ Idle
    /\ \E o \in UpdateOpts :
             /\ Issue("updateImage", o,
                      IF impl = "ruby" THEN update_image(api, o) ELSE updateImage(api, o))
             /\ NoPagination

DeleteImage ==
    LET DeleteOpts == { [NoOpts EXCEPT !.id = i] : i \in AssetIds }
    IN
    /\ Idle
    /\ \E o \in DeleteOpts :
             /\ Issue("deleteImage", o,
                      IF impl = "ruby" THEN delete_image(api, o) ELSE deleteImage(api, o))
             /\ NoPagination

BulkCreate ==
    LET BulkOpts ==
            { [NoOpts EXCEPT !.csvFile = Val("string", "url\nhttps://e.x/a.png\n"), !.email = e] :
                e \in Opt({Val("string", "ops@example.com"), Val("string", "")}) }
    IN
    /\ Idle
    /\ \E o \in BulkOpts :
             /\ Issue("bulkCreate", o,
                      IF impl = "ruby" THEN bulk_create(api, o) ELSE bulkCreate(api, o))
             /\ NoPagination

ScrapePage ==
    LET ScrapeOpts ==
            { [NoOpts EXCEPT !.url = Val("string", "https://e.x/page"), !.html = h,
                             !.includeExisting = i, !.lang = g, !.keywords = k,
                             !.negativeKeywords = n, !.gptPrompt = q, !.maxChars = m,
                             !.overwrite = o] :
                h \in Opt({Val("string", "<img src=a.png>")}),
                i \in Opt({Val("boolean", "true"), Val("boolean", "false")}), g \in Opt({Val("string", "en")}),
                k \in Opt({Val("array", "[\"dog\"]")}), n \in Opt({Val("array", "[\"cat\"]")}),
                q \in Opt({Val("string", "Describe {{AltText}}")}), m \in Opt({Val("number", "125")}),
                o \in Opt({Val("boolean", "true"), Val("boolean", "false")}) }
    IN
    /\ Idle
    /\ \E o \in ScrapeOpts :
             /\ Issue("scrapePage", o,
                      IF impl = "ruby" THEN scrape_page(api, o) ELSE scrapePage(api, o))
             /\ NoPagination

\* a formatter is called on a record and returns its lines joined with "\n"
Show(kind, input, lines) ==
    /\ shown' = [kind |-> kind, input |-> input, lines |-> lines,
                 text |-> Join(lines, "\n")]
    /\ UNCHANGED <<impl, callVars, startVars, tag, given, sent, reply, page>>

FormatImage ==
    LET Images ==
            { ImageRecord(i, a, u, l, t, m, c, e, r) :
                i \in {Val("string", "a1")}, a \in AltTexts,
                u \in Opt({Val("string", "https://e.x/a.png")}),
                l \in {NoItems, Items(<<>>), Items(<< <<"fr", "Un chien">>, <<"de", "Ein Hund">> >>)},
                t \in {NoItems, Items(<<"pets", "beach">>)},
                m \in {NoItems, Items(<< <<"sku", "1">> >>)},
                c \in {NoNumber, Number(0), Number(951782400), Number(1700000000)},
                e \in Opt({Val("string", "invalid_image")}),
                r \in {NoItems, Items(<< <<"url", <<"is invalid", "must be public">>>> >>)} }
    IN
    /\ Idle
    /\ \E image \in Images :
             Show("image", image,
                  IF impl = "ruby" THEN format_image(image) ELSE formatImage(image))

FormatImageList ==
    LET \* image records with every field missing but the ones given
        BareImage(asset_id, alt_text) ==
            ImageRecord(asset_id, alt_text, Undefined, NoItems, NoItems, NoItems, NoNumber,
                        Undefined, NoItems)
    IN
    LET ListedImages == { BareImage(i, a) : i \in {Val("string", "a1"), Val("string", "b2")}, a \in AltTexts }
    IN
    LET ImageLists ==
            {<<>>} \cup { <<x>> : x \in ListedImages } \cup { <<x, y>> : x, y \in ListedImages }
    IN
    LET Paginations ==
            { [currentPage |-> 1, pageItems |-> 20, totalPages |-> 1, totalCount |-> 0],
              [currentPage |-> 2, pageItems |-> 20, totalPages |-> 5, totalCount |-> 97] }
    IN
    /\ Idle
    /\ \E images \in ImageLists : \E p \in Paginations :
             LET result == [images |-> images, pagination |-> p]
             IN  Show("list", result,
                      IF impl = "ruby" THEN format_image_list(result) ELSE formatImageList(result))

FormatAccount ==
    /\ Idle
    /\ \E usage \in {-1, 0, 42, 1000, 1500}, usage_limit \in {0, 100, 1000},
          gpt_prompt \in Opt({Val("string", "Describe this image"), Val("string", "")}),
          max_chars \in Opt({Val("number", "125"), Val("number", "0")}),
          hooks \in BOOLEAN, whitelabel \in {"true", "false"},
          ending_period \in Opt({Val("boolean", "true"), Val("boolean", "false")}),
          remove_symbols \in Opt({Val("boolean", "true"), Val("boolean", "false")}) :
             LET account ==
                     [name |-> Val("string", "Test Account"),
                      usage |-> Number(usage), usage_limit |-> Number(usage_limit),
                      default_lang |-> Val("string", "en"),
                      gpt_prompt |-> gpt_prompt, max_chars |-> max_chars,
                      webhook_url |-> IF hooks THEN Val("string", "https://example.com/hook")
                                      ELSE Undefined,
                      notification_email |-> IF hooks THEN Val("string", "test@example.com")
                                             ELSE Null,
                      whitelabel |-> Val("boolean", whitelabel),
                      no_quotes |-> Val("boolean", "true"),
                      ending_period |-> ending_period,
                      remove_symbols |-> remove_symbols]
             IN  Show("account", account,
                      IF impl = "ruby" THEN format_account(account) ELSE formatAccount(account))

FormatScrapeResult ==
    LET ScrapedImages ==
            { [src |-> s, skip_reason |-> r, width |-> w, height |-> h] :
                s \in Opt({Val("string", "img1.jpg")}),
                r \in {Undefined, Null, Val("string", "already processed"), Val("string", "")},
                w \in {Undefined, Null, Val("number", "800")},
                h \in Opt({Val("number", "600")}) }
        First ==
            { [src |-> Val("string", "img0.jpg"), skip_reason |-> r,
               width |-> Undefined, height |-> Undefined] :
                r \in Opt({Val("string", "too small")}) }
    IN
    /\ Idle
    /\ \E images \in {<<>>} \cup { <<x>> : x \in ScrapedImages }
                    \cup { <<x, y>> : x \in First, y \in ScrapedImages },
          total_processed \in {0, 1, 2},
          errors \in {NoItems, Items(<<>>), Items(<< <<"url", <<"is unreachable">>>> >>)} :
             LET result == [scraped_images |-> images,
                            total_processed |-> Number(total_processed),
                            errors |-> errors]
                 url == "https://example.com/page"
             IN  Show("scrape", [result |-> result, url |-> url],
                      IF impl = "ruby" THEN format_scrape_result(result, url)
                      ELSE formatScrapeResult(result, url))

\* the call is over: the next one starts from the same client
Return ==
    /\ proc = "library"
    /\ given # NoCall \/ shown # Nothing
    /\ given' = NoCall /\ sent' = NoCall /\ reply' = Nothing /\ page' = Nothing
    /\ shown' = Nothing
    /\ UNCHANGED <<impl, callVars, startVars, tag>>

ApiNext ==
    \/ GetAccount
    \/ UpdateAccount
    \/ ListImages
    \/ SearchImages
    \/ GetImage
    \/ CreateImage
    \/ CreateImageFromRaw
    \/ TranslateImage
    \/ UpdateImage
    \/ DeleteImage
    \/ BulkCreate
    \/ ScrapePage
    \/ FormatImage
    \/ FormatImageList
    \/ FormatAccount
    \/ FormatScrapeResult
    \/ Return

ApiSpec == ApiInit /\ [][ApiNext]_vars

(***************************************************************************)
(* Properties.                                                             *)
(***************************************************************************)
Done(c) == pc[c] = "done"

\* what the call's last attempt ended with
Last(c) == seen[c][Len(seen[c])]

IsConnectionError(r) ==
    /\ r.kind = "raise"
    /\ r.exc.class = "AltTextApiError"
    /\ r.exc.status = 0
    /\ r.exc.errorCode = "connection_error"
    /\ r.exc.errors = <<>>

\* C1: a call whose first attempt ends with the connection closed
\* mid-request makes a second attempt; when that one gets a response with a
\* success status the call returns its body, and when it ends with the
\* connection closed too the call raises the API error with status 0 and
\* code connection_error.
C1_RetryTransparency ==
    \A c \in Calls :
        (Done(c) /\ seen[c] # <<>> /\ IsClosed(seen[c][1])) =>
            /\ Len(seen[c]) = 2
            /\ (seen[c][2].kind = "response" /\ IsSuccess(seen[c][2].status))
                   => (ret[c].kind = "return" /\ ret[c].data = seen[c][2].body)
            /\ IsClosed(seen[c][2]) => IsConnectionError(ret[c])

\* C2: a call never makes more than two network attempts, and while it is in
\* the client it can always take its next step, each of which either ends the
\* attempt in flight or starts the next of the at most two.
C2_AtMostTwoAttempts ==
    \A c \in Calls :
        /\ attempts[c] <= 2
        /\ Len(seen[c]) <= attempts[c]
        /\ pc[c] \in {"attempt", "inflight"} => ENABLED ClientStep(c)
        /\ pc[c] = "attempt" => attempts[c] = Len(seen[c]) /\ attempts[c] <= 1
        /\ pc[c] = "inflight" => attempts[c] = Len(seen[c]) + 1
        /\ Done(c) => attempts[c] = Len(seen[c])

\* a call that met broken pipe twice: two attempts, then the error
C2_Witness ==
    \E c \in Calls :
        /\ Done(c) /\ attempts[c] = 2
        /\ seen[c] = <<TransportError("EPIPE"), TransportError("EPIPE")>>
        /\ ret[c].kind = "raise"

\* C3: an attempt that ends with an HTTP error response or with a transport
\* failure outside the closed-connection class is the call's last attempt:
\* the call is over, has raised, and no attempt follows; if it was the
\* first attempt it is the only one.
C3_OnlyClosedRetried ==
    LET IsFailure(o) == o.kind = "error" \/ ~IsSuccess(o.status)
    IN
    \A c \in Calls : \A i \in DOMAIN seen[c] :
        (IsFailure(seen[c][i]) /\ ~IsClosed(seen[c][i])) =>
            /\ Done(c)
            /\ attempts[c] = i
            /\ ret[c].kind = "raise"

\* one call refused on its first attempt, another answered 401: one attempt each
C3_Witness ==
    \E c, d \in Calls :
        /\ Done(c) /\ attempts[c] = 1
        /\ seen[c] = <<TransportError("ECONNREFUSED")>>
        /\ IsConnectionError(ret[c])
        /\ Done(d) /\ attempts[d] = 1
        /\ seen[d][1].kind = "response" /\ seen[d][1].status = 401
        /\ ret[d].kind = "raise" /\ ret[d].exc.status = 401

\* C4: a call whose last attempt ended with a transport failure, on any
\* endpoint, raises the API error with status 0, code connection_error and
\* an empty field-error map.
C4_TransportFailureClassified ==
    \A c \in Calls :
        (Done(c) /\ seen[c] # <<>> /\ Last(c).kind = "error") => IsConnectionError(ret[c])

\* C5: a response with a failure status makes the client raise the API error
\* with that status, the body's error_code, and the message of the priority
\* rule.
C5_ErrorFromResponse ==
    LET \* the message the priority rule gives for a body and a status
        PriorityMessage(body, status) ==
            IF body.error # Absent THEN body.error
            ELSE IF body.errors.kind = "map" /\ Len(Flat(body.errors.pairs)) > 0
            THEN Join(Flat(body.errors.pairs), ", ")
            ELSE "HTTP " \o ToString(status)
    IN
    \A c \in Calls :
        (Done(c) /\ seen[c] # <<>> /\ Last(c).kind = "response"
                 /\ ~IsSuccess(Last(c).status)) =>
            /\ ret[c].kind = "raise"
            /\ ret[c].exc.class = "AltTextApiError"
            /\ ret[c].exc.status = Last(c).status
            /\ ret[c].exc.errorCode = Last(c).body.error_code
            /\ ret[c].exc.message = PriorityMessage(Last(c).body, Last(c).status)

\* C6: a response with a failure status whose body is no JSON object makes
\* the client raise the API error with that status and the message
\* "HTTP <status>", and nothing else.
C6_MalformedErrorBody ==
    \A c \in Calls :
        (Done(c) /\ seen[c] # <<>> /\ Last(c).kind = "response"
                 /\ ~IsSuccess(Last(c).status) /\ Last(c).body.kind # "object") =>
            ret[c] = Raised(AltTextApiError(Last(c).status, Absent, <<>>,
                                            "HTTP " \o ToString(Last(c).status)))

\* C7: no call is failed by another call: every failure an attempt of a
\* call ends with is one the upstream or the network caused for that call,
\* and a call that has used its retry used it on such a failure.
C7_NoInterference ==
    \A c \in Calls :
        /\ \A i \in DOMAIN seen[c] : seen[c][i] \in Outcomes
        /\ ~torn[c]

\* the handler's try block threw: a local validation error, an error raised
\* by the client, or a TypeError while building the text
Threw(c) ==
    \/ ret[c].kind = "raise"
    \/ /\ ret[c].kind = "return"
       /\ handlerSuccess(tool[c], file[c].base, ret[c].data).kind = "raise"

\* C8: a finished invocation has handed back exactly one text block, flagged
\* as an error exactly when its try block threw; and an invocation under way
\* can always take its next step (nothing escapes the handler).
C8_OneBlockFlaggedIffFailed ==
    \A c \in Calls :
        /\ Done(c) =>
              /\ Len(content[c].content) = 1
              /\ content[c].isError <=> Threw(c)
              /\ failed[c] <=> Threw(c)
        /\ ~Done(c) => content[c] = NoContent
        /\ pc[c] \in {"validate", "read", "call", "attempt", "inflight"}
              => ENABLED (Validate(c) \/ ReadFile(c) \/ ApiCall(c) \/ ClientStep(c))

\* one invocation failed and is flagged, another succeeded and is not
C8_Witness ==
    \E c, d \in Calls :
        /\ Done(c) /\ Threw(c) /\ content[c].isError
        /\ Done(d) /\ ~Threw(d) /\ ~content[d].isError
        /\ content[d].content = <<"Bulk import processed 0 rows">>

\* the error a failed invocation's catch block received
Caught(c) ==
    IF ret[c].kind = "raise" THEN ret[c].exc
    ELSE handlerSuccess(tool[c], file[c].base, ret[c].data).exc

\* C9: a failed invocation's block reads "Error (<status>): <message>", with
\* a second line "Code: <error_code>" exactly when the error carries a code
\* (its error_code is present), if the failure is an API error, and
\* "Error: <message>" otherwise; it is flagged as an error.
C9_ErrorText ==
    \A c \in Calls :
        (Done(c) /\ Threw(c)) =>
            /\ content[c].isError
            /\ content[c].content =
                 << IF Caught(c).class = "AltTextApiError"
                    THEN "Error (" \o ToString(Caught(c).status) \o "): "
                         \o Caught(c).message
                         \o (IF Caught(c).errorCode # Absent
                             THEN "\nCode: " \o Caught(c).errorCode ELSE "")
                    ELSE "Error: " \o Caught(c).message >>

\* C10: once a file tool has validated a file that fails validation, the
\* invocation is over with a flagged error and has made no network attempt.
C10_InvalidFileNoNetwork ==
    LET \* the claim's conditions on a local file, for the tool that is given it
        FailsValidation(f, t) ==
            \/ ~f.resolves
            \/ ~f.isFile
            \/ f.size > 10 * 1024 * 1024
            \/ /\ t = "generate_alt_text_from_file"
               /\ f.ext \notin {".jpg", ".jpeg", ".png", ".gif", ".webp", ".bmp", ".tiff",
                                ".tif", ".svg", ".avif",
                                ".JPG", ".PNG"}
    IN
    \A c \in Calls :
        (tool[c] \in FileTools /\ pc[c] # "validate" /\ FailsValidation(file[c], tool[c])) =>
            /\ Done(c)
            /\ content[c].isError
            /\ attempts[c] = 0
            /\ seen[c] = <<>>

\* an over-size image and a directory given as CSV, both refused locally
C10_Witness ==
    \E c, d \in Calls :
        /\ Done(c) /\ tool[c] = "generate_alt_text_from_file"
        /\ file[c].size = MAX_FILE_SIZE + 1 /\ file[c].ext = ".png"
        /\ content[c].isError /\ attempts[c] = 0
        /\ Done(d) /\ tool[d] = "bulk_create" /\ ~file[d].isFile /\ file[d].resolves
        /\ content[d].content = <<"Error: Not a regular file: /data/dir">>

\* C11: with the API key absent from the environment the process can only
\* exit with a failure: no client is constructed, no tool is registered, the
\* transport is never connected and no tool call is under way; and whenever a
\* tool call is under way the client holds a key.
C11_NoKeyNoService ==
    /\ env.ALTTEXT_API_KEY = Absent =>
          /\ proc \in {"start", "exit1"}
          /\ proc = "start" => ENABLED Startup
          /\ api = NoApi
          /\ registered = {}
          /\ \A c \in Calls : pc[c] = "idle" /\ attempts[c] = 0
    /\ \A c \in Calls : pc[c] # "idle" => (proc = "serving" /\ ~keyMissing(api.apiKey))

\* the process started without a key has exited with a failure
C11_Witness ==
    /\ env.ALTTEXT_API_KEY = Absent
    /\ proc = "exit1"
    /\ api = NoApi

\* the pagination field read from each header
FieldOf(p, name) ==
    CASE name = "current-page" -> p.currentPage
      [] name = "page-items" -> p.pageItems
      [] name = "total-pages" -> p.totalPages
      [] name = "total-count" -> p.totalCount

\* C12: each pagination field of a list or search result is the value of its
\* header when that header is present and numeric, and the field's default
\* (1, 20, 1, 0) when the header is missing or not numeric.
C12_PaginationDefaults ==
    LET \* a pagination header that is a number: digits, or "-" and digits
        IsNumeric(h) ==
            /\ h.given
            /\ LET ds == IF h.chars # <<>> /\ h.chars[1] = "-" THEN Tail(h.chars) ELSE h.chars
               IN  ds # <<>> /\ \A i \in DOMAIN ds : IsDigit(ds[i])
    IN
    LET NumericValue(h) ==
            IF h.chars[1] = "-" THEN 0 - digitsValue(Tail(h.chars), 0) ELSE digitsValue(h.chars, 0)
    IN
    LET \* the documented default of each pagination field
        DefaultOf(name) ==
            CASE name = "current-page" -> 1
              [] name = "page-items" -> 20
              [] name = "total-pages" -> 1
              [] name = "total-count" -> 0
    IN
    page.kind = "pagination" =>
        \A name \in HeaderNames :
            FieldOf(page.pagination, name) =
                IF IsNumeric(reply.headers[name]) THEN NumericValue(reply.headers[name])
                ELSE DefaultOf(name)

\* C13: all four pagination fields of a list or search result are
\* non-negative, whatever the pagination headers hold.
C13_PaginationNonNegative ==
    page.kind = "pagination" =>
        \A name \in HeaderNames : FieldOf(page.pagination, name) >= 0

\* the methods whose options include overwrite
OverwriteMethods == {"createImage", "createImageFromRaw", "updateImage", "scrapePage"}

\* C14: in create-image (by URL and raw), update-image and scrape-page the
\* request body has an overwrite key exactly when the caller supplied
\* overwrite, and its value is the supplied one: false stays false.
C14_OverwriteAsSupplied ==
    given.method \in OverwriteMethods =>
        /\ HasKey(sent.body.outer, "overwrite") <=> given.opts.overwrite # Undefined
        /\ HasKey(sent.body.outer, "overwrite")
              => Get(sent.body.outer, "overwrite") = given.opts.overwrite
        /\ ~HasKey(sent.body.inner, "overwrite")

\* overwrite: false was supplied and is in the body as false
C14_Witness ==
    /\ given.method \in OverwriteMethods
    /\ given.opts.overwrite = Val("boolean", "false")
    /\ HasKey(sent.body.outer, "overwrite")
    /\ Get(sent.body.outer, "overwrite") = Val("boolean", "false")

C17_RequestHeaders ==
    LET \* the methods that send a JSON body
        JsonBodyMethods ==
            {"updateAccount", "createImage", "createImageFromRaw", "translateImage",
             "updateImage", "scrapePage"}
    IN
    given.method # "none" =>
        /\ HasKey(sent.headers, "X-API-Key")
        /\ Get(sent.headers, "X-API-Key") = "key-123"
        /\ HasKey(sent.headers, "Accept")
        /\ Get(sent.headers, "Accept") = "application/json"
        /\ sent.body.present <=> given.method \in JsonBodyMethods
        /\ HasKey(sent.headers, "Content-Type") <=> sent.body.present
        /\ HasKey(sent.headers, "Content-Type")
              => Get(sent.headers, "Content-Type") = "application/json"
        /\ (sent.kind = "json") <=> sent.body.present
        /\ given.method = "bulkCreate" =>
              /\ sent.kind = "multipart"
              /\ HasKey(sent.form, "file")
              /\ Get(sent.form, "file") = given.opts.csvFile.v
              /\ HasKey(sent.form, "email") =>
                    /\ given.opts.email # Undefined
                    /\ Get(sent.form, "email") = given.opts.email.v
              /\ \A i \in DOMAIN sent.form : sent.form[i][1] \in {"file", "email"}
        /\ given.method # "bulkCreate" => sent.kind # "multipart" /\ sent.form = <<>>

\* a bulk-create request with an email: multipart, no JSON content type
C17_Witness ==
    /\ given.method = "bulkCreate"
    /\ sent.kind = "multipart"
    /\ HasKey(sent.form, "email")
    /\ ~HasKey(sent.headers, "Content-Type")
    /\ HasKey(sent.headers, "X-API-Key")

\* C18: every request of a client constructed with a client-version tag v
\* carries the header X-Client: mcp-server/<v>.
C18_ClientHeader ==
    (tag # Absent /\ given.method # "none") =>
        /\ HasKey(sent.headers, "X-Client")
        /\ Get(sent.headers, "X-Client") = "mcp-server/" \o tag

\* C19: every POST /images request has async: false at the top level of its
\* body; the translate request body is exactly
\* { image: { asset_id }, lang, async: false }.
C19_AsyncFalse ==
    /\ (given.method # "none" /\ sent.method = "POST" /\ sent.path = <<"/", "images">>) =>
          /\ given.method \in {"createImage", "createImageFromRaw", "translateImage"}
          /\ HasKey(sent.body.outer, "async")
          /\ Get(sent.body.outer, "async") = Val("boolean", "false")
    /\ given.method \in {"createImage", "createImageFromRaw", "translateImage"} =>
          sent.method = "POST" /\ sent.path = <<"/", "images">>
    /\ given.method = "translateImage" =>
          /\ sent.body.envelope = "image"
          /\ sent.body.inner = << <<"asset_id", given.opts.assetId>> >>
          /\ Len(sent.body.outer) = 2
          /\ HasKey(sent.body.outer, "lang")
          /\ Get(sent.body.outer, "lang") = given.opts.lang
          /\ HasKey(sent.body.outer, "async")

\* a create request with every option supplied, overwrite true among them
C19_Witness ==
    /\ given.method = "createImageFromRaw"
    /\ given.opts.overwrite = Val("boolean", "true")
    /\ given.opts.lang # Undefined /\ given.opts.maxChars # Undefined
    /\ given.opts.metadata # Undefined
    /\ Get(sent.body.outer, "async") = Val("boolean", "false")

\* C20: the single-image formatter's output for a record without alt_text
\* has the line "Alt text: (none)", and the list formatter's line of an item
\* without alt_text is "- <asset_id>: (no alt text)".
C20_MissingAltText ==
    /\ (shown.kind = "image" /\ IsNullish(shown.input.alt_text)) =>
          /\ \E i \in DOMAIN shown.lines : shown.lines[i] = "Alt text: (none)"
          /\ shown.text = Join(shown.lines, "\n")
    /\ shown.kind = "list" =>
          /\ Len(shown.lines) = 2 + (IF shown.input.images = <<>> THEN 1
                                     ELSE Len(shown.input.images))
          /\ \A i \in DOMAIN shown.input.images :
                IsNullish(shown.input.images[i].alt_text) =>
                    shown.lines[i + 2] =
                        "- " \o shown.input.images[i].asset_id.v \o ": (no alt text)"

\* an image without alt_text shown alone, with other fields present
C20_Witness ==
    /\ shown.kind = "image"
    /\ shown.input.alt_text = Null
    /\ shown.input.url # Undefined
    /\ shown.lines[2] = "Alt text: (none)"
    /\ Len(shown.lines) > 3

\* C21: the credits line of the account formatter's output is
\* "Credits: <usage_limit - usage> remaining (<usage> used of <usage_limit>)"
\* for every usage and usage_limit, negative when usage exceeds the limit.
C21_CreditsUnclamped ==
    shown.kind = "account" =>
        LET usage == shown.input.usage.n
            usage_limit == shown.input.usage_limit.n
        IN  /\ shown.lines[2] =
                  "Credits: " \o ToString(usage_limit - usage) \o " remaining ("
                  \o ToString(usage) \o " used of " \o ToString(usage_limit) \o ")"
            /\ shown.text = Join(shown.lines, "\n")

\* an account over its limit: 1500 used of 1000
C21_Witness ==
    /\ shown.kind = "account"
    /\ shown.input.usage.n = 1500
    /\ shown.input.usage_limit.n = 1000
    /\ shown.lines[2] = "Credits: -500 remaining (1500 used of 1000)"

\* C22: the scrape-result formatter's output ends with the note about
\* asynchronous processing exactly when total_processed > 0, and the line of
\* each discovered image is "  - <src> (<width>x<height>) [<status>]", the
\* dimensions shown exactly when both are present and the status being
\* "skipped: <reason>" when the image has a skip reason and "queued" otherwise.
C22_ScrapeNoteAndStatus ==
    shown.kind = "scrape" =>
        LET result == shown.input.result
            note == "\nNote: Images are being processed asynchronously. Use list_images or get_image to check results."
            hasReason(img) == img.skip_reason.t = "string" /\ img.skip_reason.v # ""
            hasDims(img) == img.width.t = "number" /\ img.height.t = "number"
            expected(img) ==
                "  - " \o (IF img.src.t = "string" THEN img.src.v ELSE "(no src)")
                \o (IF hasDims(img) THEN " (" \o img.width.v \o "x" \o img.height.v \o ")"
                    ELSE "")
                \o (IF hasReason(img) THEN " [skipped: " \o img.skip_reason.v \o "]"
                    ELSE " [queued]")
        IN  /\ (\E i \in DOMAIN shown.lines : shown.lines[i] = note)
                  <=> result.total_processed.n > 0
            /\ \A i \in DOMAIN result.scraped_images :
                   shown.lines[5 + i] = expected(result.scraped_images[i])

\* C23: the account formatter's output has the line "Remove symbols: true"
\* when remove_symbols is true, and no "Remove symbols:" line when the field
\* is absent.
C23_RemoveSymbolsLine ==
    shown.kind = "account" =>
        /\ shown.input.remove_symbols = Val("boolean", "true") =>
              \E i \in DOMAIN shown.lines : shown.lines[i] = "Remove symbols: true"
        /\ shown.input.remove_symbols = Undefined =>
              \A i \in DOMAIN shown.lines :
                  shown.lines[i] \notin {"Remove symbols: true", "Remove symbols: false"}

\* C24: a call whose response has a success status and a body whose read
\* fails (connection lost, timeout) raises the API error with status 0 and
\* code connection_error; it does not return.
C24_BodyReadFailureSurfaced ==
    \A c \in Calls :
        (Done(c) /\ seen[c] # <<>> /\ Last(c).kind = "response"
                 /\ IsSuccess(Last(c).status) /\ Last(c).body.kind = "broken") =>
            IsConnectionError(ret[c])

\* C25: whatever calls came before on the client, a call starts with no
\* attempt made and its retry unused, meets only failures the upstream or the
\* network caused for it, makes a second attempt when its first ends with the
\* connection closed, and returns when its last attempt is answered with a
\* success status.
C25_CallsIndependent ==
    \A c \in Calls :
        /\ (pc[c] = "attempt" /\ attempts[c] = 0) => (~retried[c] /\ seen[c] = <<>>)
        /\ \A i \in DOMAIN seen[c] : seen[c][i] \in Outcomes
        /\ (Done(c) /\ seen[c] # <<>> /\ IsClosed(seen[c][1])) => Len(seen[c]) = 2
        /\ (Done(c) /\ seen[c] # <<>> /\ Last(c).kind = "response"
                    /\ IsSuccess(Last(c).status)) => ret[c].kind = "return"

\* C26: a response with a success status whose body is empty or no JSON
\* makes the client return the empty object: the call does not raise.
C26_UnparsableSuccessBody ==
    \A c \in Calls :
        (Done(c) /\ seen[c] # <<>> /\ Last(c).kind = "response"
                 /\ IsSuccess(Last(c).status) /\ Last(c).body.kind = "nonjson") =>
            ret[c] = Returned(EmptyObject)

\* delete-image answered 204 without a body: the tool reports the deletion
C26_Witness ==
    \E c \in Calls :
        /\ Done(c) /\ tool[c] = "delete_image"
        /\ Last(c).status = 204 /\ Last(c).body.kind = "nonjson"
        /\ ret[c] = Returned(EmptyObject)
        /\ content[c] = textContent("Deleted image img_1")

\* C27: an invocation calls at most one client method, once; when it is over
\* it has called none if its local preprocessing (validating and reading the
\* file) failed and exactly one otherwise, and a finished invocation calls
\* nothing more.
C27_OneClientCall ==
    \A c \in Calls :
        LET allowed == IF tool[c] = "generate_alt_text_from_file"
                       THEN ALLOWED_IMAGE_EXTENSIONS ELSE NoExtensions
            preprocessingFailed ==
                /\ tool[c] \in FileTools
                /\ \/ resolveAndValidateFile(file[c], allowed).kind = "raise"
                   \/ ~onDisk[c].resolves
                   \/ ~onDisk[c].isFile
        IN  /\ invoked[c] <= 1
            /\ Done(c) => invoked[c] = (IF preprocessingFailed THEN 0 ELSE 1)
            /\ Done(c) => ~ENABLED ApiCall(c)
            /\ pc[c] \in {"attempt", "inflight"} => invoked[c] = 1

\* one invocation refused locally without a client call, another whose one
\* client call failed after its retry
C27_Witness ==
    \E c, d \in Calls :
        /\ Done(c) /\ tool[c] = "bulk_create" /\ ~file[c].resolves
        /\ invoked[c] = 0 /\ attempts[c] = 0
        /\ Done(d) /\ tool[d] = "get_account" /\ ret[d].kind = "raise"
        /\ invoked[d] = 1 /\ attempts[d] = 2

\* C28: a regular file of an accepted type of exactly 10 MiB passes
\* validation and, read as validated, is handed to the client; one of
\* 10 MiB + 1 bytes or more ends the invocation with the local "File too
\* large" error and no client call.
C28_SizeLimitInclusive ==
    \A c \in Calls :
        LET f == file[c]
            accepted ==
                /\ tool[c] \in FileTools /\ pc[c] # "validate"
                /\ f.resolves /\ f.isFile
                /\ tool[c] = "generate_alt_text_from_file" => f.ext \in {".png", ".PNG", ".JPG"}
        IN  /\ (accepted /\ f.size = 10 * 1024 * 1024) =>
                  /\ pc[c] \in {"read", "call", "attempt", "inflight", "done"}
                  /\ (Done(c) /\ onDisk[c] = f) => (invoked[c] = 1 /\ attempts[c] >= 1)
            /\ (accepted /\ f.size >= 10 * 1024 * 1024 + 1) =>
                  /\ Done(c)
                  /\ invoked[c] = 0 /\ attempts[c] = 0
                  /\ content[c] =
                         [content |-> <<"Error: File too large (" \o ToString(f.size)
                                        \o " bytes, max 10485760)">>,
                          isError |-> TRUE]

\* an image of exactly 10 MiB was uploaded and answered
C28_Witness ==
    \E c \in Calls :
        /\ Done(c) /\ tool[c] = "generate_alt_text_from_file"
        /\ file[c].size = 10485760 /\ onDisk[c] = file[c]
        /\ invoked[c] = 1 /\ attempts[c] = 1
        /\ ret[c].kind = "return" /\ ~content[c].isError

\* C29: the base of every request URL is the override, or
\* https://alttext.ai/api/v1 when there is none, without any of its trailing
\* slashes, and the path that follows starts with exactly one "/".
C29_TrailingSlashesStripped ==
    given.method # "none" =>
        LET raw == IF env.ALTTEXT_API_BASE_URL.given THEN env.ALTTEXT_API_BASE_URL.chars
                   ELSE <<"https://alttext.ai", "/", "api", "/", "v1">>
            n == CHOOSE k \in 0..Len(raw) :
                     /\ k = 0 \/ raw[k] # "/"
                     /\ \A j \in (k + 1)..Len(raw) : raw[j] = "/"
        IN  /\ sent.base = Str(SubSeq(raw, 1, n))
            /\ ~env.ALTTEXT_API_BASE_URL.given => sent.base = "https://alttext.ai/api/v1"
            /\ sent.path[1] = "/"
            /\ Len(sent.path) > 1 => sent.path[2] # "/"

\* C30: the file a file tool hands to the client is one that passes the
\* validation: it resolves, is a regular file of an accepted type and is no
\* larger than the limit, whatever happened to the path after the validation.
C30_UploadedFileValidated ==
    \A c \in Calls :
        (tool[c] \in FileTools /\ invoked[c] >= 1) =>
            /\ onDisk[c].resolves /\ onDisk[c].isFile
            /\ onDisk[c].size <= 10 * 1024 * 1024
            /\ tool[c] = "generate_alt_text_from_file" =>
                   onDisk[c].ext \in {".png", ".PNG", ".JPG"}

====
